---------------------------- MODULE Spec2Model ----------------------------
(***************************************************************************)
(* MuseMetric: the ranking / statistics engine of the catalog              *)
(* (src/utils.ts) and the views that derive ranks from it                  *)
(* (DashboardView, DataEntryView, RankingPresentationView).                *)
(*                                                                         *)
(* Numbers.  JavaScript numbers are modelled as exact rationals            *)
(* [n |-> numerator, d |-> denominator > 0] in lowest terms, so that       *)
(* (l + c + a) / 3, sum / count and the 0.001 threshold are computed       *)
(* exactly; rounding of IEEE doubles is not modelled.                      *)
(*                                                                         *)
(* Strings.  Titles and years are sequences of character codes, compared   *)
(* the way JavaScript compares strings (code unit by code unit).  Ids are  *)
(* tuples <<"s", k>> / <<"a", k>> that are only ever compared for          *)
(* equality.                                                               *)
(*                                                                         *)
(* Array.prototype.sort is modelled as the engine the application runs on  *)
(* executes it for arrays shorter than 64 elements (V8: one run is counted *)
(* and made ascending, the rest is inserted by binary insertion), since    *)
(* the result for a comparator that is not a consistent order is           *)
(* implementation-defined.                                                 *)
(*                                                                         *)
(* JavaScript values.  What a backup file or the stored catalog parses to  *)
(* is a value of any shape; such values are records (numbers as above,     *)
(* [str |-> codes], [arr |-> elements], [obj |-> fields], null, undefined) *)
(* and sanitizeSingerImport, parseFloat and the import and load paths of   *)
(* the App work on them.  The views follow the one singer they are given   *)
(* (singer); the App's whole catalog (singers) is followed by SpecImport.  *)
(*                                                                         *)
(* File matcher.  A scan is a sequence of steps between its awaits: a file *)
(* is examined up to the call of setFileHandle, the call resolves or       *)
(* rejects, a subdirectory is entered and left, the result is returned.    *)
(*                                                                         *)
(* Lyrics.  parseLrc works on the text as a sequence of character codes;   *)
(* the regular expression of a cue line is followed character by           *)
(* character, "." stopping at a line terminator.                           *)
(*                                                                         *)
(* Data entry.  The handlers of DataEntryView (albums, songs, titles,      *)
(* scores, the two confirmation dialogs, drag and drop, the AI track list) *)
(* are one step each; a call of generateAlbumTracklist is outstanding      *)
(* until it resolves, whatever the dialog does meanwhile.                  *)
(*                                                                         *)
(* Presentation.  A handler of RankingPresentationView is one step         *)
(* together with the effects React runs for its state updates; the         *)
(* callbacks of setTimeout and the suspended calls of loadMedia are kept   *)
(* as data and run as steps of their own.                                  *)
(***************************************************************************)
EXTENDS Integers, Sequences, FiniteSets, TLC

VARIABLES
    singer,          \* the singer shown by the views (their singer prop)
    activeSongId,    \* DataEntryView: the focused song
    songSortConfig,  \* DashboardView: key and direction of the song table
    imported,        \* the value handed to sanitizeSingerImport
    sanitized,       \* what sanitizeSingerImport returned (or threw) for it
    singers,         \* App: the catalog, as the JavaScript value it holds
    mounted,         \* App: the start-up effect has run
    scanSongs,       \* fileMatcher: the song list handed to the scan (songs)
    dirHandle,       \* fileMatcher: the entries of the directory (or file list) scanned
    iterators,       \* fileMatcher: the open loops over entries, innermost last
    pending,         \* fileMatcher: the setFileHandle calls that have not settled
    store,           \* db: the key-value store of file handles
    matchedSongsMap, \* fileMatcher: the flag updates collected per song id
    counters,        \* fileMatcher: { audio, lrc }
    log,             \* the files examined so far, in the order they were examined
    result,          \* fileMatcher: the MatchingResult returned
    lrcContent,      \* the text handed to parseLrc
    lrcData,         \* the array parseLrc returned for it
    deleteTarget,          \* DataEntryView: what the delete dialog is about
    clearScoreTarget,      \* DataEntryView: what the clear-scores dialog is about
    dragItem,              \* DataEntryView: the item being dragged
    dragOverItem,          \* DataEntryView: the last accepted drop target
    isDragHandleActive,    \* DataEntryView: the mouse went down on a drag handle
    aiTargetAlbumId,       \* DataEntryView: the album the AI dialog is about
    generatedSongs,        \* DataEntryView: the track list of the AI dialog
    isGenerating,          \* DataEntryView: the AI dialog shows its spinner
    showGenerationConfirm, \* DataEntryView: the AI dialog is open
    aiRequests,            \* geminiService: the calls of generateAlbumTracklist not yet resolved
    playlist,              \* RankingPresentationView: the countdown being shown
    currentSongIndex,      \* RankingPresentationView: 0-based position in playlist
    isPlaying,             \* RankingPresentationView: playback is on
    isTransitioning,       \* RankingPresentationView: the fade between two songs is shown
    switchingRef,          \* RankingPresentationView: switchingRef.current, the lock
    timeouts,              \* RankingPresentationView: the setTimeout callbacks not yet run
    elapsedTime,           \* RankingPresentationView: milliseconds counted by the fallback timer
    intervalOn,            \* RankingPresentationView: the fallback timer's interval exists
    audioSrc,              \* RankingPresentationView: the song whose file is the audio element's src
    lrcLines,              \* RankingPresentationView: the lyric cues shown
    permissionNeeded,      \* RankingPresentationView: the permission prompt is up
    permissionHandle,      \* RankingPresentationView: the song whose file the prompt is about
    loads                  \* RankingPresentationView: the calls of loadMedia not yet finished

\* the variables of the views, those of the App and its import paths, and
\* those of a scan of the file matcher
importVars == <<imported, sanitized, singers, mounted>>
scanVars == <<scanSongs, dirHandle, iterators, pending, store, matchedSongsMap, counters, log, result>>
lrcVars == <<lrcContent, lrcData>>
dialogVars == <<deleteTarget, clearScoreTarget>>
dragVars == <<dragItem, dragOverItem, isDragHandleActive>>
aiVars == <<aiTargetAlbumId, generatedSongs, isGenerating, showGenerationConfirm, aiRequests>>
entryVars == <<dialogVars, dragVars, aiVars>>
playVars == <<isPlaying, isTransitioning, switchingRef, timeouts, elapsedTime, intervalOn>>
mediaVars == <<audioSrc, lrcLines, permissionNeeded, permissionHandle, loads>>
showVars == <<playlist, currentSongIndex, playVars, mediaVars>>
extraVars == <<lrcVars, entryVars, showVars>>
otherVars == <<importVars, scanVars, extraVars>>

vars == <<singer, activeSongId, songSortConfig, otherVars>>

---------------------------------------------------------------------------
(* Bounds of the model *)

MaxSongs == 2
MaxTieSongs == 3
MaxTableSongs == 5
MaxWindowSongs == 6
MaxPartialSongs == 2
MaxSingers == 2
MaxScanSongs == 2
MaxScanFiles == 2
MaxMatchSongs == 2
MaxLrcLines == 3
MaxCatalogItems == 4
MaxDragSongs == 3
MaxRequests == 2

---------------------------------------------------------------------------
(* Numbers *)

RECURSIVE GCD(_, _)
GCD(a, b) == IF b = 0 THEN a ELSE GCD(b, a % b)

AbsInt(x) == IF x < 0 THEN -x ELSE x

Rat(n, d) == LET g == GCD(AbsInt(n), d) IN [n |-> n \div g, d |-> d \div g]

Num(k) == Rat(k, 1)
Zero == Num(0)

Add(x, y) == Rat(x.n * y.d + y.n * x.d, x.d * y.d)
Sub(x, y) == Rat(x.n * y.d - y.n * x.d, x.d * y.d)
DivBy(x, k) == Rat(x.n, x.d * k)
Times(k, x) == Rat(k * x.n, x.d)
Neg(x) == [n |-> -x.n, d |-> x.d]
Abs(x) == [n |-> AbsInt(x.n), d |-> x.d]
Less(x, y) == x.n * y.d < y.n * x.d
MinNum(x, y) == IF Less(y, x) THEN y ELSE x
MaxNum(x, y) == IF Less(x, y) THEN y ELSE x
SignOf(x) == IF x.n < 0 THEN -1 ELSE IF x.n > 0 THEN 1 ELSE 0

\* the literal 0.001
EPS == Rat(1, 1000)

\* NaN, and the value of a property that an object does not have
NaN == [n |-> 0, d |-> 0]
UNDEFINED == [undefined |-> TRUE]

\* obj[key] of a JavaScript object
Prop(obj, key) == IF key \in DOMAIN obj THEN obj[key] ELSE UNDEFINED

\* the number an operand of + or / is converted to
ToNumber(v) == IF v = UNDEFINED THEN NaN ELSE v

\* x + y and x / k on numbers that may be NaN
JsAdd(x, y) ==
    IF ToNumber(x) = NaN \/ ToNumber(y) = NaN THEN NaN ELSE Add(ToNumber(x), ToNumber(y))
JsDivBy(x, k) == IF ToNumber(x) = NaN THEN NaN ELSE DivBy(ToNumber(x), k)

---------------------------------------------------------------------------
(* Strings *)

RECURSIVE StrLess(_, _)
StrLess(s, t) ==
    IF t = <<>> THEN FALSE
    ELSE IF s = <<>> THEN TRUE
    ELSE IF Head(s) # Head(t) THEN Head(s) < Head(t)
    ELSE StrLess(Tail(s), Tail(t))

---------------------------------------------------------------------------
(* Array helpers *)

Reverse(arr) == [k \in 1..Len(arr) |-> arr[Len(arr) + 1 - k]]

\* arr.slice(start, end), 0-based and end-exclusive, for 0 <= start
Slice(arr, start, end) ==
    LET e == IF end > Len(arr) THEN Len(arr) ELSE end
    IN IF e <= start THEN <<>> ELSE [k \in 1..(e - start) |-> arr[start + k]]

\* arr.findIndex(s => s.id === id): 0-based index of the first match, or -1
FindIndexById(arr, id) ==
    LET hits == {k \in 1..Len(arr) : arr[k].id = id}
    IN IF hits = {} THEN -1 ELSE (CHOOSE k \in hits : \A j \in hits : k <= j) - 1

\* arr.filter(s => s.albumId === albumId)
RECURSIVE FilterByAlbum(_, _)
FilterByAlbum(arr, albumId) ==
    IF arr = <<>> THEN <<>>
    ELSE IF Head(arr).albumId = albumId
         THEN <<Head(arr)>> \o FilterByAlbum(Tail(arr), albumId)
         ELSE FilterByAlbum(Tail(arr), albumId)

---------------------------------------------------------------------------
(* Array.prototype.sort.  The array is sorted through a permutation of its *)
(* indices; c[i][j] is the sign of comparefn(arr[i], arr[j]).              *)

CountRun(perm, c) ==
    LET n == Len(perm)
        isDescending == c[perm[2]][perm[1]] < 0
        breaks == {k \in 3..n :
                     IF isDescending THEN c[perm[k]][perm[k - 1]] >= 0
                                     ELSE c[perm[k]][perm[k - 1]] < 0}
        runLength == IF breaks = {} THEN n
                     ELSE (CHOOSE k \in breaks : \A j \in breaks : k <= j) - 1
    IN [isDescending |-> isDescending, runLength |-> runLength]

CountAndMakeRun(perm, c) ==
    LET run == CountRun(perm, c)
    IN [runLength |-> run.runLength,
        arr |-> IF run.isDescending
                THEN [k \in 1..Len(perm) |->
                        IF k <= run.runLength THEN perm[run.runLength + 1 - k]
                        ELSE perm[k]]
                ELSE perm]

RECURSIVE BinarySearch(_, _, _, _, _)
BinarySearch(arr, c, pivot, left, right) ==
    IF left >= right THEN left
    ELSE LET mid == left + ((right - left) \div 2)
         IN IF c[pivot][arr[mid]] < 0
            THEN BinarySearch(arr, c, pivot, left, mid)
            ELSE BinarySearch(arr, c, pivot, mid + 1, right)

RECURSIVE BinaryInsertionSort(_, _, _)
BinaryInsertionSort(arr, c, start) ==
    IF start > Len(arr) THEN arr
    ELSE LET pivot == arr[start]
             pos == BinarySearch(arr, c, pivot, 1, start)
             moved == [k \in 1..Len(arr) |->
                         IF k < pos THEN arr[k]
                         ELSE IF k = pos THEN pivot
                         ELSE IF k <= start THEN arr[k - 1]
                         ELSE arr[k]]
         IN BinaryInsertionSort(moved, c, start + 1)

SortPermutation(n, c) ==
    LET identity == [k \in 1..n |-> k]
    IN IF n < 2 THEN identity
       ELSE LET run == CountAndMakeRun(identity, c)
            IN BinaryInsertionSort(run.arr, c, run.runLength + 1)

ArraySort(arr, c) ==
    LET p == SortPermutation(Len(arr), c)
    IN [k \in 1..Len(arr) |-> arr[p[k]]]

---------------------------------------------------------------------------
(* src/utils.ts *)

calculateSongTotal(lyrics, composition, arrangement) ==
    JsDivBy(JsAdd(JsAdd(lyrics, composition), arrangement), 3)

\* sortSongsAlgorithm with a tie at a difference of exactly 0.001 (<= for <)
sortSongsAlgorithm_TieAtEps(a, b) ==
    LET diff == Sub(b.totalScore, a.totalScore)
    IN IF ~Less(EPS, Abs(diff))
       THEN Sub(b.scores.composition, a.scores.composition)
       ELSE diff

sortSongsAlgorithm(a, b) ==
    LET diff == Sub(b.totalScore, a.totalScore)
    IN IF Less(Abs(diff), EPS)
       THEN Sub(b.scores.composition, a.scores.composition)
       ELSE diff

\* [...songs].sort(sortSongsAlgorithm)
CoreMatrix(songs) ==
    [i \in 1..Len(songs) |-> [j \in 1..Len(songs) |->
        SignOf(sortSongsAlgorithm(songs[i], songs[j]))]]

SortCore(songs) == ArraySort(songs, CoreMatrix(songs))

RECURSIVE AlbumSums(_, _)
AlbumSums(songs, acc) ==
    IF songs = <<>> THEN acc
    ELSE LET song == Head(songs)
         IN AlbumSums(Tail(songs),
              [sumLyrics |-> JsAdd(acc.sumLyrics, Prop(song.scores, "lyrics")),
               sumComp |-> JsAdd(acc.sumComp, Prop(song.scores, "composition")),
               sumArr |-> JsAdd(acc.sumArr, Prop(song.scores, "arrangement")),
               sumTotal |-> JsAdd(acc.sumTotal,
                   calculateSongTotal(Prop(song.scores, "lyrics"),
                                      Prop(song.scores, "composition"),
                                      Prop(song.scores, "arrangement")))])

\* AlbumStats with the arrangement average taken from the composition sum
AlbumStats_ArrFromComp(album) ==
    LET totalSongs == Len(album.songs)
        sums == AlbumSums(album.songs,
                  [sumLyrics |-> Zero, sumComp |-> Zero, sumArr |-> Zero, sumTotal |-> Zero])
    IN [averageLyrics |-> IF totalSongs # 0 THEN JsDivBy(sums.sumLyrics, totalSongs) ELSE Zero,
        averageComposition |-> IF totalSongs # 0 THEN JsDivBy(sums.sumComp, totalSongs) ELSE Zero,
        averageArrangement |-> IF totalSongs # 0 THEN JsDivBy(sums.sumComp, totalSongs) ELSE Zero,
        averageTotal |-> IF totalSongs # 0 THEN JsDivBy(sums.sumTotal, totalSongs) ELSE Zero]
       @@ album

AlbumStats(album) ==
    LET totalSongs == Len(album.songs)
        sums == AlbumSums(album.songs,
                  [sumLyrics |-> Zero, sumComp |-> Zero, sumArr |-> Zero, sumTotal |-> Zero])
    IN [averageLyrics |-> IF totalSongs # 0 THEN JsDivBy(sums.sumLyrics, totalSongs) ELSE Zero,
        averageComposition |-> IF totalSongs # 0 THEN JsDivBy(sums.sumComp, totalSongs) ELSE Zero,
        averageArrangement |-> IF totalSongs # 0 THEN JsDivBy(sums.sumArr, totalSongs) ELSE Zero,
        averageTotal |-> IF totalSongs # 0 THEN JsDivBy(sums.sumTotal, totalSongs) ELSE Zero]
       @@ album

\* SongStats with the album year taken from the album title
SongStats_YearFromTitle(album, song) ==
    [totalScore |-> calculateSongTotal(Prop(song.scores, "lyrics"),
                                       Prop(song.scores, "composition"),
                                       Prop(song.scores, "arrangement")),
     albumId |-> album.id,
     albumName |-> album.title,
     albumYear |-> album.title,
     albumCover |-> album.coverUrl]
    @@ song

SongStats(album, song) ==
    [totalScore |-> calculateSongTotal(Prop(song.scores, "lyrics"),
                                       Prop(song.scores, "composition"),
                                       Prop(song.scores, "arrangement")),
     albumId |-> album.id,
     albumName |-> album.title,
     albumYear |-> album.year,
     albumCover |-> album.coverUrl]
    @@ song

RECURSIVE FlatMapSongs(_)
FlatMapSongs(albums) ==
    IF albums = <<>> THEN <<>>
    ELSE LET album == Head(albums)
         IN [k \in 1..Len(album.songs) |-> SongStats(album, album.songs[k])]
            \o FlatMapSongs(Tail(albums))

enrichSingerData(s) ==
    [albumsWithStats |-> [k \in 1..Len(s.albums) |-> AlbumStats(s.albums[k])],
     allSongs |-> FlatMapSongs(s.albums)]

\* getPresentationSongs without the final reverse
getPresentationSongs_NotReversed(s) ==
    LET sortedByRank == SortCore(enrichSingerData(s).allSongs)
    IN [k \in 1..Len(sortedByRank) |-> [rank |-> k] @@ sortedByRank[k]]

getPresentationSongs(s) ==
    LET sortedByRank == SortCore(enrichSingerData(s).allSongs)
        songsWithRank == [k \in 1..Len(sortedByRank) |-> [rank |-> k] @@ sortedByRank[k]]
    IN Reverse(songsWithRank)

---------------------------------------------------------------------------
(* The catalog *)

NULL == <<"null">>
SongId(k) == <<"s", k>>
AlbumId(k) == <<"a", k>>

ZeroScores == [lyrics |-> Zero, composition |-> Zero, arrangement |-> Zero]

\* titles and years of stored records, by position ("b", "a", "ab", "b", ...)
TitleOf(k) == IF k % 3 = 1 THEN <<98>> ELSE IF k % 3 = 2 THEN <<97>> ELSE <<97, 98>>
YearOf(k) == IF k % 2 = 1 THEN <<50, 48, 48, 49>> ELSE <<49, 57, 57, 57>>

RECURSIVE SumSizes(_)
SumSizes(sizes) == IF sizes = <<>> THEN 0 ELSE Head(sizes) + SumSizes(Tail(sizes))

\* the album sizes of the stored catalogs: no album, one album, or two albums,
\* holding at most maxSongs songs together
Shapes(maxSongs) ==
    {<<>>} \cup {<<n>> : n \in 0..maxSongs}
           \cup {sizes \in {<<n1, n2>> : n1 \in 0..maxSongs, n2 \in 0..maxSongs} :
                     SumSizes(sizes) <= maxSongs}

\* a stored song; with dupId the second song of the catalog carries the id of the first
StoredSong(k, dupId) ==
    [id |-> SongId(IF dupId /\ k = 2 THEN 1 ELSE k),
     title |-> TitleOf(k),
     scores |-> ZeroScores]

StoredAlbum(sizes, a, dupId) ==
    LET offset == SumSizes(SubSeq(sizes, 1, a - 1))
    IN [id |-> AlbumId(a),
        title |-> TitleOf(a),
        year |-> YearOf(a),
        coverUrl |-> NULL,
        songs |-> [k \in 1..sizes[a] |-> StoredSong(offset + k, dupId)]]

StoredSinger(sizes, dupId) ==
    [id |-> <<"singer">>,
     name |-> <<97>>,
     albums |-> [a \in 1..Len(sizes) |-> StoredAlbum(sizes, a, dupId)]]

allSongs == enrichSingerData(singer).allSongs
albumsWithStats == enrichSingerData(singer).albumsWithStats

---------------------------------------------------------------------------
(* Score editing (DataEntryView and DashboardView) *)

Fields == {"lyrics", "composition", "arrangement"}

\* Math.min(10, Math.max(0, parseFloat(value) || 0))
ClampScore(value) == MinNum(Num(10), MaxNum(Zero, value))

\* { ...song.scores, [field]: numValue }
SetScore(scores, field, numValue) == (field :> numValue) @@ scores

UpdatedAlbums(albumId, songId, field, numValue) ==
    [a \in 1..Len(singer.albums) |->
        LET album == singer.albums[a]
        IN IF album.id # albumId THEN album
           ELSE [album EXCEPT !.songs =
                   [k \in 1..Len(album.songs) |->
                       LET song == album.songs[k]
                       IN IF song.id # songId THEN song
                          ELSE [song EXCEPT !.scores = SetScore(song.scores, field, numValue)]]]]

\* DataEntryView.handleUpdateScore
handleUpdateScore(albumId, songId, field, value) ==
    /\ activeSongId' = songId
    /\ singer' = [singer EXCEPT !.albums =
                    UpdatedAlbums(albumId, songId, field, ClampScore(value))]
    /\ UNCHANGED <<songSortConfig, otherVars>>

\* DashboardView.handleUpdateScore
dashboardUpdateScore(albumId, songId, field, value) ==
    /\ singer' = [singer EXCEPT !.albums =
                    UpdatedAlbums(albumId, songId, field, ClampScore(value))]
    /\ UNCHANGED <<activeSongId, songSortConfig, otherVars>>

---------------------------------------------------------------------------
(* DashboardView *)

\* songsWithRank with the 0-based index as rank
songsWithRank_ZeroBased(songs) ==
    LET sortedByScore == SortCore(songs)
    IN [k \in 1..Len(songs) |->
          [rank |-> FindIndexById(sortedByScore, songs[k].id)] @@ songs[k]]

\* songsWithRank: every song of allSongs with its rank in the core ordering
songsWithRank(songs) ==
    LET sortedByScore == SortCore(songs)
    IN [k \in 1..Len(songs) |->
          [rank |-> FindIndexById(sortedByScore, songs[k].id) + 1] @@ songs[k]]

NumericKeys == {"lyrics", "composition", "arrangement", "total"}
SortKeys == {"title", "album"} \cup NumericKeys

\* value extraction of sortData
SortValue(song, key) ==
    IF key = "title" THEN song.title
    ELSE IF key = "album" THEN song.albumYear
    ELSE IF key = "lyrics" THEN song.scores.lyrics
    ELSE IF key = "composition" THEN song.scores.composition
    ELSE IF key = "arrangement" THEN song.scores.arrangement
    ELSE song.totalScore

\* the comparator of sortData
sortDataCompare(a, b, config) ==
    LET valA == SortValue(a, config.key)
        valB == SortValue(b, config.key)
        isNumeric == config.key \in NumericKeys
        comparison ==
            IF isNumeric
            THEN IF Less(EPS, Abs(Sub(valA, valB))) THEN Sub(valA, valB) ELSE Zero
            ELSE IF StrLess(valA, valB) THEN Num(-1)
                 ELSE IF StrLess(valB, valA) THEN Num(1)
                 ELSE Zero
        compDiff == Sub(a.scores.composition, b.scores.composition)
    IN IF comparison # Zero
       THEN IF config.direction = "asc" THEN comparison ELSE Neg(comparison)
       ELSE IF config.key = "total" /\ Less(EPS, Abs(compDiff))
       THEN IF config.direction = "asc" THEN compDiff ELSE Neg(compDiff)
       ELSE IF config.direction = "asc" THEN Num(b.rank - a.rank) ELSE Num(a.rank - b.rank)

TableMatrix(data, config) ==
    [i \in 1..Len(data) |-> [j \in 1..Len(data) |->
        SignOf(sortDataCompare(data[i], data[j], config))]]

sortData(data, config) == ArraySort(data, TableMatrix(data, config))

sortedSongs == sortData(songsWithRank(allSongs), songSortConfig)

\* (a, b) => b.averageTotal - a.averageTotal
AlbumMatrix(albums) ==
    [i \in 1..Len(albums) |-> [j \in 1..Len(albums) |->
        SignOf(Sub(albums[j].averageTotal, albums[i].averageTotal))]]

sortedAlbums(albums) == ArraySort(albums, AlbumMatrix(albums))

handleSort(key) ==
    /\ songSortConfig' =
         [key |-> key,
          direction |-> IF songSortConfig.key = key /\ songSortConfig.direction = "desc"
                        THEN "asc" ELSE "desc"]
    /\ UNCHANGED <<singer, activeSongId, otherVars>>

---------------------------------------------------------------------------
(* DataEntryView *)

\* activeSongStats, for the focused song id
activeSongStats(songs, albums, id) ==
    IF id = NULL \/ FindIndexById(songs, id) = -1 THEN NULL
    ELSE LET currentSong == songs[FindIndexById(songs, id) + 1]
             albumSongs == FilterByAlbum(songs, currentSong.albumId)
             sortedAlbumSongs == SortCore(albumSongs)
             sortedAllSongs == SortCore(songs)
             hasAlbum == FindIndexById(albums, currentSong.albumId) # -1
         IN [totalScore |-> currentSong.totalScore,
             rankInAlbum |-> FindIndexById(sortedAlbumSongs, id) + 1,
             totalInAlbum |-> Len(albumSongs),
             rankOverall |-> FindIndexById(sortedAllSongs, id) + 1,
             totalOverall |-> Len(songs),
             albumRank |-> IF hasAlbum
                           THEN FindIndexById(sortedAlbums(albums), currentSong.albumId) + 1
                           ELSE 0,
             totalAlbums |-> Len(albums),
             albumName |-> currentSong.albumName]

WindowSize == 5

\* start and end of the slice taken by rankingNeighbors
\* the window without the re-adjusted start at the end of the list
NeighborWindow_StartKept(currentIndex, total) ==
    LET start == currentIndex - 2
        end == start + WindowSize
    IN IF start < 0
       THEN [start |-> 0, end |-> IF total < WindowSize THEN total ELSE WindowSize]
       ELSE IF end > total
       THEN [start |-> start, end |-> total]
       ELSE [start |-> start, end |-> end]

NeighborWindow(currentIndex, total) ==
    LET start == currentIndex - 2
        end == start + WindowSize
    IN IF start < 0
       THEN [start |-> 0, end |-> IF total < WindowSize THEN total ELSE WindowSize]
       ELSE IF end > total
       THEN [start |-> IF total - WindowSize > 0 THEN total - WindowSize ELSE 0, end |-> total]
       ELSE [start |-> start, end |-> end]

\* rankingNeighbors, for the focused song id
rankingNeighbors(songs, id) ==
    IF id = NULL THEN <<>>
    ELSE LET sortedAllSongs == SortCore(songs)
             currentIndex == FindIndexById(sortedAllSongs, id)
         IN IF currentIndex = -1 THEN <<>>
            ELSE LET w == NeighborWindow(currentIndex, Len(sortedAllSongs))
                     part == Slice(sortedAllSongs, w.start, w.end)
                 IN [i \in 1..Len(part) |->
                       [absoluteRank |-> w.start + (i - 1) + 1,
                        isCurrent |-> part[i].id = id] @@ part[i]]

\* onFocus of a song row
focusSong(songId) ==
    /\ activeSongId' = songId
    /\ UNCHANGED <<singer, songSortConfig, otherVars>>

---------------------------------------------------------------------------
(* RankingPresentationView: what is rendered for a playlist *)

renderPresentation(songList, songIndex) ==
    IF Len(songList) = 0 THEN "noData"
    ELSE IF songIndex + 1 \in 1..Len(songList) THEN "song"
    ELSE "TypeError"

---------------------------------------------------------------------------
(* JavaScript values of parsed JSON: numbers are rationals (NaN, Infinity   *)
(* and -Infinity have denominator 0), every other value is a record that    *)
(* carries its type as its field name.                                      *)

INFINITY == [n |-> 1, d |-> 0]
NEG_INFINITY == [n |-> -1, d |-> 0]

JNull == [null |-> TRUE]
JBool(b) == [bool |-> b]
JStr(chars) == [str |-> chars]
JArr(elements) == [arr |-> elements]
JObj(fields) == [obj |-> fields]

IsNumber(v) == DOMAIN v = {"n", "d"}
IsString(v) == DOMAIN v = {"str"}
IsArray(v) == DOMAIN v = {"arr"}
IsObject(v) == DOMAIN v = {"obj"}
IsNullish(v) == v = JNull \/ v = UNDEFINED

\* the error thrown by a property read on null or undefined
TypeError == [thrown |-> "TypeError"]

\* ToBoolean
Truthy(v) ==
    IF IsNumber(v) THEN v # Zero /\ v # NaN
    ELSE IF IsString(v) THEN v.str # <<>>
    ELSE IF DOMAIN v = {"bool"} THEN v.bool
    ELSE ~IsNullish(v)

\* a || b and a ?? b
OrElse(a, b) == IF Truthy(a) THEN a ELSE b
Coalesce(a, b) == IF IsNullish(a) THEN b ELSE a

\* v.key for a value that is not null or undefined: only objects have the
\* keys of the catalog format
Get(v, key) == IF IsObject(v) THEN Prop(v.obj, key) ELSE UNDEFINED

---------------------------------------------------------------------------
(* parseFloat *)

IsDigit(c) == c \in 48..57
IsWhiteSpace(c) == c \in {9, 10, 11, 12, 13, 32, 160}

RECURSIVE TrimStart(_)
TrimStart(s) == IF s # <<>> /\ IsWhiteSpace(Head(s)) THEN TrimStart(Tail(s)) ELSE s

RECURSIVE TakeDigits(_)
TakeDigits(s) ==
    IF s # <<>> /\ IsDigit(Head(s)) THEN <<Head(s)>> \o TakeDigits(Tail(s)) ELSE <<>>

RECURSIVE DigitsValue(_, _)
DigitsValue(digits, acc) ==
    IF digits = <<>> THEN acc ELSE DigitsValue(Tail(digits), 10 * acc + (Head(digits) - 48))

RECURSIVE Pow10(_)
Pow10(k) == IF k = 0 THEN 1 ELSE 10 * Pow10(k - 1)

Drop(s, k) == SubSeq(s, k + 1, Len(s))
StartsWith(s, prefix) == Len(s) >= Len(prefix) /\ SubSeq(s, 1, Len(prefix)) = prefix

\* "Infinity"
InfinityChars == <<73, 110, 102, 105, 110, 105, 116, 121>>

\* the exponent part at the start of s: its value, 0 when there is none
ExponentOf(s) ==
    IF s = <<>> \/ Head(s) \notin {69, 101} THEN 0
    ELSE LET rest == Tail(s)
             signed == rest # <<>> /\ Head(rest) \in {43, 45}
             digits == TakeDigits(IF signed THEN Tail(rest) ELSE rest)
             value == DigitsValue(digits, 0)
         IN IF digits = <<>> THEN 0
            ELSE IF signed /\ Head(rest) = 45 THEN -value ELSE value

\* parseFloat of a string: the longest prefix, after leading white space,
\* that is a decimal literal
ParseFloatChars(chars) ==
    LET Magnitude(mantissa, exponent) ==
            IF exponent >= 0 THEN Times(Pow10(exponent), mantissa)
            ELSE DivBy(mantissa, Pow10(-exponent))
        Signed(negative, magnitude) == IF negative THEN Neg(magnitude) ELSE magnitude
        Literal(negative, intDigits, fracDigits, afterFrac) ==
            IF intDigits = <<>> /\ fracDigits = <<>> THEN NaN
            ELSE Signed(negative,
                        Magnitude(Rat(DigitsValue(intDigits \o fracDigits, 0), Pow10(Len(fracDigits))),
                                  ExponentOf(afterFrac)))
        Fraction(negative, intDigits, afterInt, hasDot, fracDigits) ==
            Literal(negative, intDigits, fracDigits,
                    IF hasDot THEN Drop(afterInt, 1 + Len(fracDigits)) ELSE afterInt)
        AfterInt(negative, intDigits, afterInt, hasDot) ==
            Fraction(negative, intDigits, afterInt, hasDot,
                     IF hasDot THEN TakeDigits(Tail(afterInt)) ELSE <<>>)
        Integer(negative, intDigits, afterInt) ==
            AfterInt(negative, intDigits, afterInt, afterInt # <<>> /\ Head(afterInt) = 46)
        Digits(negative, body, intDigits) ==
            Integer(negative, intDigits, Drop(body, Len(intDigits)))
        Body(negative, body) ==
            IF StartsWith(body, InfinityChars)
            THEN IF negative THEN NEG_INFINITY ELSE INFINITY
            ELSE Digits(negative, body, TakeDigits(body))
        Sign(trimmed, signed) ==
            Body(signed /\ Head(trimmed) = 45, IF signed THEN Tail(trimmed) ELSE trimmed)
        Trimmed(trimmed) == Sign(trimmed, trimmed # <<>> /\ Head(trimmed) \in {43, 45})
    IN Trimmed(TrimStart(chars))

\* parseFloat(val): val is converted to a string first; a number gives
\* itself, an array the parse of its first element, anything else but a
\* string gives NaN
RECURSIVE ParseFloat(_)
ParseFloat(v) ==
    IF IsNumber(v) THEN v
    ELSE IF IsString(v) THEN ParseFloatChars(v.str)
    ELSE IF IsArray(v) /\ v.arr # <<>> /\ ~IsNullish(v.arr[1]) THEN ParseFloat(v.arr[1])
    ELSE NaN

---------------------------------------------------------------------------
(* utils.ts: sanitizeSingerImport *)

\* generateId(): Math.random().toString(36).substr(2, 9).  The model takes the
\* random digits from a seed and the position of the call, "g" <seed> <path>.
generateId(seed, path) == JStr(<<103, 48 + seed>> \o [k \in 1..Len(path) |-> 48 + path[k]])

UnknownSinger == JStr(<<85, 110, 107, 110, 111, 119, 110, 32, 83, 105, 110, 103, 101, 114>>)
UntitledAlbum == JStr(<<85, 110, 116, 105, 116, 108, 101, 100, 32, 65, 108, 98, 117, 109>>)
UnknownYear == JStr(<<85, 110, 107, 110, 111, 119, 110, 32, 89, 101, 97, 114>>)
UntitledSong == JStr(<<85, 110, 116, 105, 116, 108, 101, 100, 32, 83, 111, 110, 103>>)
EmptyString == JStr(<<>>)

\* parseScore without the isNaN test
parseScore_KeepsNaN(val) == ParseFloat(val)

\* const num = parseFloat(val); return isNaN(num) ? 0 : num
parseScore(val) ==
    LET ZeroIfNaN(num) == IF num = NaN THEN Zero ELSE num
    IN ZeroIfNaN(ParseFloat(val))

\* arr.map(f) where f may throw: results is the sequence of the results
MapResult(results) ==
    IF \E k \in 1..Len(results) : results[k] = TypeError THEN TypeError ELSE JArr(results)

\* the callback of album.songs.map
sanitizeSong(song, seed, path) ==
    IF IsNullish(song) THEN TypeError
    ELSE LET rawScores == OrElse(OrElse(Get(song, "scores"), Get(song, "score")), JObj(<<>>))
             scores == JObj(
                 [lyrics |-> parseScore(Coalesce(Get(rawScores, "lyrics"),
                                                 Get(rawScores, "Lyrics"))),
                  composition |-> parseScore(Coalesce(Get(rawScores, "composition"),
                                                      Get(rawScores, "Composition"))),
                  arrangement |-> parseScore(Coalesce(Get(rawScores, "arrangement"),
                                                      Get(rawScores, "Arrangement")))])
         IN JObj([id |-> OrElse(Get(song, "id"), generateId(seed, path)),
                  title |-> OrElse(Get(song, "title"), UntitledSong),
                  comment |-> OrElse(Get(song, "comment"), EmptyString),
                  scores |-> scores,
                  hasAudio |-> Get(song, "hasAudio"),
                  hasLrc |-> Get(song, "hasLrc"),
                  highlightStartTime |-> Get(song, "highlightStartTime")])

\* the callback of singer.albums.map
sanitizeAlbum(album, seed, path) ==
    IF IsNullish(album) THEN TypeError
    ELSE LET Album(songs) ==
               IF songs = TypeError THEN TypeError
               ELSE JObj([id |-> OrElse(Get(album, "id"), generateId(seed, path)),
                          title |-> OrElse(Get(album, "title"), UntitledAlbum),
                          year |-> OrElse(Get(album, "year"), UnknownYear),
                          coverUrl |-> Get(album, "coverUrl"),
                          songs |-> songs])
         IN Album(IF IsArray(Get(album, "songs"))
                  THEN MapResult([k \in 1..Len(Get(album, "songs").arr) |->
                                    sanitizeSong(Get(album, "songs").arr[k], seed, path \o <<k>>)])
                  ELSE JArr(<<>>))

\* the callback of data.map
sanitizeSinger(s, seed, path) ==
    IF IsNullish(s) THEN TypeError
    ELSE LET Singer(albums) ==
               IF albums = TypeError THEN TypeError
               ELSE JObj([id |-> OrElse(Get(s, "id"), generateId(seed, path)),
                          name |-> OrElse(Get(s, "name"), UnknownSinger),
                          albums |-> albums])
         IN Singer(IF IsArray(Get(s, "albums"))
                   THEN MapResult([j \in 1..Len(Get(s, "albums").arr) |->
                                     sanitizeAlbum(Get(s, "albums").arr[j], seed, path \o <<j>>)])
                   ELSE JArr(<<>>))

\* the value returned by sanitizeSingerImport(data), or TypeError when it throws
sanitizeSingerImport(data, seed) ==
    IF ~IsArray(data) THEN JArr(<<>>)
    ELSE MapResult([i \in 1..Len(data.arr) |-> sanitizeSinger(data.arr[i], seed, <<i>>)])

---------------------------------------------------------------------------
(* The values handed to the sanitizer and to the import and load paths *)

\* an object with the keys of template whose value is not UNDEFINED
ObjectOf(template) ==
    JObj([key \in {k \in DOMAIN template : template[k] # UNDEFINED} |-> template[key]])

\* the records of scores found in backups
RawScoreRecords ==
    { JObj([Lyrics |-> JStr(<<55, 46, 53>>), composition |-> Num(4)]),
      JObj([lyrics |-> Num(7), composition |-> Num(8), arrangement |-> Num(6)]),
      JObj([lyrics |-> JStr(<<97, 98, 99>>), Lyrics |-> Num(9), composition |-> JStr(<<32, 56, 46, 50, 53, 112, 116>>),
            arrangement |-> JNull, Arrangement |-> JStr(<<51>>)]),
      JObj(<<>>),
      JStr(<<103, 97, 114, 98, 97, 103, 101>>) }

\* where a song keeps its scores: under scores, under score, under score
\* next to scores: null or scores: "", or nowhere
ScoreKeys == {"scores", "score", "nullScores", "emptyScores", "none"}

RawSongIds == {UNDEFINED, JStr(<<115, 49>>), Num(5)}
RawComments == {UNDEFINED, JStr(<<104, 105>>)}

RawSong(id, scoreKey, scoreRecord, comment, withMedia) ==
    ObjectOf([id |-> id,
              title |-> JStr(<<88>>),
              scores |-> IF scoreKey = "scores" THEN scoreRecord
                         ELSE IF scoreKey = "nullScores" THEN JNull
                         ELSE IF scoreKey = "emptyScores" THEN EmptyString ELSE UNDEFINED,
              score |-> IF scoreKey \in {"score", "nullScores", "emptyScores"}
                        THEN scoreRecord ELSE UNDEFINED,
              comment |-> comment,
              hasAudio |-> IF withMedia THEN JBool(TRUE) ELSE UNDEFINED,
              hasLrc |-> IF withMedia THEN JBool(FALSE) ELSE UNDEFINED,
              highlightStartTime |-> IF withMedia THEN Num(30) ELSE UNDEFINED])

RawSongs ==
    {JNull, Num(5)} \cup
    {RawSong(id, scoreKey, scoreRecord, comment, withMedia) :
        id \in RawSongIds, scoreKey \in ScoreKeys, scoreRecord \in RawScoreRecords,
        comment \in RawComments, withMedia \in BOOLEAN}

NotAnArray == JStr(<<110, 111, 116, 45, 97, 110, 45, 97, 114, 114, 97, 121>>)

\* the values found under the songs key of an album
RawSongLists ==
    {UNDEFINED, NotAnArray, JArr(<<>>)} \cup {JArr(<<song>>) : song \in RawSongs}

\* an album written by the application (complete) or by hand (songs only)
RawAlbum(complete, songs) ==
    ObjectOf([id |-> IF complete THEN JStr(<<97, 49>>) ELSE UNDEFINED,
              title |-> IF complete THEN JStr(<<84>>) ELSE UNDEFINED,
              year |-> IF complete THEN JStr(<<50, 48, 48, 49>>) ELSE UNDEFINED,
              songs |-> songs])

RawAlbumLists ==
    {UNDEFINED, NotAnArray, JArr(<<JNull>>)} \cup
    {JArr(<<RawAlbum(complete, songs)>>) : complete \in BOOLEAN, songs \in RawSongLists}

RawSingerIds == {UNDEFINED, JStr(<<112, 49>>), Num(7)}

RawSinger(id, albums) ==
    ObjectOf([id |-> id,
              name |-> IF id = UNDEFINED THEN UNDEFINED ELSE JStr(<<78>>),
              albums |-> albums])

\* the parsed content of a backup file or of the stored catalog
ImportValues ==
    {JNull, JStr(<<103, 97, 114, 98, 97, 103, 101>>), Num(3), JArr(<<>>), JArr(<<JNull>>), JArr(<<Num(5)>>),
     JArr(<<JStr(<<120>>)>>)} \cup
    {JArr(<<RawSinger(id, albums)>>) : id \in RawSingerIds, albums \in RawAlbumLists}

---------------------------------------------------------------------------
(* SpecSanitize: sanitizeSingerImport applied to a parsed backup *)

\* nothing has been handed to parseLrc
LrcIdle ==
    /\ lrcContent = UNDEFINED
    /\ lrcData = UNDEFINED

\* the data-entry view with no dialog open, no drag and no request under way
EntryIdle ==
    /\ deleteTarget = JNull
    /\ clearScoreTarget = JNull
    /\ dragItem = JNull
    /\ dragOverItem = JNull
    /\ isDragHandleActive = FALSE
    /\ aiTargetAlbumId = NULL
    /\ generatedSongs = <<>>
    /\ isGenerating = FALSE
    /\ showGenerationConfirm = FALSE
    /\ aiRequests = <<>>

\* the presentation view is not mounted
ShowIdle ==
    /\ playlist = <<>>
    /\ currentSongIndex = 0
    /\ isPlaying = FALSE
    /\ isTransitioning = FALSE
    /\ switchingRef = FALSE
    /\ timeouts = <<>>
    /\ elapsedTime = 0
    /\ intervalOn = FALSE
    /\ audioSrc = NULL
    /\ lrcLines = <<>>
    /\ permissionNeeded = FALSE
    /\ permissionHandle = NULL
    /\ loads = {}

ExtraIdle == LrcIdle /\ EntryIdle /\ ShowIdle

\* no scan has been started
ScanIdle ==
    /\ scanSongs = <<>>
    /\ dirHandle = <<>>
    /\ iterators = <<>>
    /\ pending = <<>>
    /\ store = <<>>
    /\ matchedSongsMap = <<>>
    /\ counters = [audio |-> 0, lrc |-> 0]
    /\ log = <<>>
    /\ result = UNDEFINED

\* the random digits generateId may return
Seeds == {1, 2}

StartEntry ==
    /\ singer = StoredSinger(<<>>, FALSE)
    /\ activeSongId = NULL
    /\ songSortConfig = [key |-> "total", direction |-> "desc"]

InitSanitize ==
    /\ imported \in ImportValues
    /\ sanitized = UNDEFINED
    /\ singers = JArr(<<>>)
    /\ mounted = TRUE
    /\ ScanIdle
    /\ ExtraIdle
    /\ StartEntry

Sanitize ==
    /\ sanitized = UNDEFINED
    /\ \E seed \in Seeds : sanitized' = sanitizeSingerImport(imported, seed)
    /\ UNCHANGED <<singer, activeSongId, songSortConfig, imported, singers, mounted, scanVars, extraVars>>

NextSanitize == Sanitize

SpecSanitize == InitSanitize /\ [][NextSanitize]_vars

---------------------------------------------------------------------------
(* SpecImport: the App's catalog under start-up load, import and new singers *)

InitImport ==
    /\ singers = JArr(<<>>)
    /\ mounted = FALSE
    /\ imported = UNDEFINED
    /\ sanitized = UNDEFINED
    /\ ScanIdle
    /\ ExtraIdle
    /\ StartEntry

\* the start-up effect: const saved = localStorage.getItem(STORAGE_KEY);
\* if (saved) { parsed = JSON.parse(saved); setSingers(parsed); ... }
LoadSaved ==
    /\ ~mounted
    /\ mounted' = TRUE
    /\ \E saved \in ImportValues \cup {UNDEFINED} :
          singers' = IF saved = UNDEFINED THEN singers ELSE saved
    /\ UNCHANGED <<singer, activeSongId, songSortConfig, imported, sanitized, scanVars, extraVars>>

\* handleImport, reader.onload: if (Array.isArray(parsed)) setSingers(parsed)
handleImport ==
    /\ mounted
    /\ \E parsed \in ImportValues :
          singers' = IF IsArray(parsed) THEN parsed ELSE singers
    /\ UNCHANGED <<singer, activeSongId, songSortConfig, imported, sanitized, mounted, scanVars, extraVars>>

\* the name typed for a new singer
NewSingerNames == {JStr(<<78, 101, 119>>)}

\* handleAddSinger: setSingers([...singers, newSinger]); the spread throws
\* when singers is not iterable
handleAddSinger ==
    /\ mounted
    /\ IsArray(singers) \/ IsString(singers)
    /\ Len(IF IsArray(singers) THEN singers.arr ELSE singers.str) < MaxSingers
    /\ \E newSingerName \in NewSingerNames, seed \in Seeds :
          LET newSinger == JObj([id |-> generateId(seed, <<>>),
                                 name |-> newSingerName,
                                 albums |-> JArr(<<>>)])
              spread == IF IsArray(singers) THEN singers.arr
                        ELSE [k \in 1..Len(singers.str) |-> JStr(<<singers.str[k]>>)]
          IN singers' = JArr(spread \o <<newSinger>>)
    /\ UNCHANGED <<singer, activeSongId, songSortConfig, imported, sanitized, mounted, scanVars, extraVars>>

NextImport == LoadSaved \/ handleImport \/ handleAddSinger

SpecImport == InitImport /\ [][NextImport]_vars

---------------------------------------------------------------------------
(* fileMatcher: normalisation and the match of one file name.  File names  *)
(* and titles are sequences of character codes (ASCII in the inputs)       *)

toLowerCase(str) == [k \in 1..Len(str) |-> IF str[k] \in 65..90 THEN str[k] + 32 ELSE str[k]]

\* replace(/\s+/g, '')
RemoveWhiteSpace(str) == SelectSeq(str, LAMBDA c : ~IsWhiteSpace(c))

\* str.lastIndexOf(c): zero-based, -1 when c does not occur
lastIndexOf(str, c) ==
    LET at == {k \in 1..Len(str) : str[k] = c}
    IN IF at = {} THEN -1 ELSE (CHOOSE k \in at : \A j \in at : j <= k) - 1

\* str.substring(0, end): a negative end counts as 0
substring(str, end) == SubSeq(str, 1, IF end < 0 THEN 0 ELSE end)

\* replace(/^[\d\s.\-]+/, ''): '.' is 46 and '-' is 45
RECURSIVE StripLeading(_)
StripLeading(s) ==
    IF s # <<>> /\ (IsDigit(Head(s)) \/ IsWhiteSpace(Head(s)) \/ Head(s) \in {46, 45})
    THEN StripLeading(Tail(s))
    ELSE s

\* str.substring(0, str.lastIndexOf('.')) || str, then the two replacements
normalize(str) ==
    LET stem == substring(str, lastIndexOf(str, 46))
        s == IF stem = <<>> THEN str ELSE stem
    IN RemoveWhiteSpace(toLowerCase(StripLeading(s)))

normalizeTitle(str) == RemoveWhiteSpace(toLowerCase(str))

\* String.prototype.includes
includes(str, part) ==
    \E k \in 0..(Len(str) - Len(part)) : SubSeq(str, k + 1, k + Len(part)) = part

\* mp3, flac, wav, m4a, ogg, aac
AudioExtensions ==
    {<<109, 112, 51>>, <<102, 108, 97, 99>>, <<119, 97, 118>>, <<109, 52, 97>>,
     <<111, 103, 103>>, <<97, 97, 99>>}
LrcExtension == <<108, 114, 99>>

\* /\.(ext)$/i
HasExtension(fileName, ext) ==
    /\ Len(fileName) >= Len(ext) + 1
    /\ toLowerCase(SubSeq(fileName, Len(fileName) - Len(ext), Len(fileName))) = <<46>> \o ext

isAudio(fileName) == \E ext \in AudioExtensions : HasExtension(fileName, ext)
isLrc(fileName) == HasExtension(fileName, LrcExtension)

\* the callback of songs.find
TitleMatches(normalizedFileName, nTitle) ==
    includes(normalizedFileName, nTitle) /\ Len(nTitle) > 0

\* songs.find(...): the position of the first song the callback accepts, 0
\* for undefined
find(songs, normalizedFileName) ==
    LET hits == {k \in 1..Len(songs) : TitleMatches(normalizedFileName, normalizeTitle(songs[k].title))}
    IN IF hits = {} THEN 0 ELSE CHOOSE k \in hits : \A j \in hits : k <= j

\* matchAndPersist up to its test of matchedSong: the position of the song
\* the file is persisted for, 0 when the function returns without persisting
matchedSong(fileName, songs) ==
    IF ~isAudio(fileName) /\ ~isLrc(fileName) THEN 0 ELSE find(songs, normalize(fileName))

---------------------------------------------------------------------------
(* fileMatcher: the scan.  An entry of a directory is a file or a          *)
(* directory; a file is identified by its path, the positions leading to   *)
(* it from the directory scanned.  A file list is a directory of files     *)

File(name) == [kind |-> "file", name |-> name]
Directory(entries) == [kind |-> "directory", entries |-> entries]

\* the entries of the directory at a path
RECURSIVE EntriesAt(_, _)
EntriesAt(entries, path) ==
    IF path = <<>> THEN entries ELSE EntriesAt(entries[Head(path)].entries, Tail(path))

\* the loop that is running, and the entry it is about to take
Innermost == iterators[Len(iterators)]
Remaining(frame) == frame.next <= Len(EntriesAt(dirHandle, frame.directory))
NextPath(frame) == Append(frame.directory, frame.next)
NextEntry(frame) == EntriesAt(dirHandle, frame.directory)[frame.next]
Advanced == [iterators EXCEPT ![Len(iterators)].next = @ + 1]

\* the scan resumes without waiting for the calls it made
Awaited_NotAwaited(calls) == TRUE
\* await: the scan resumes when the call it made has settled
Awaited(calls) == calls = <<>>

\* the loop body for a file: matchAndPersist up to the await of setFileHandle
matchAndPersist ==
    /\ iterators # <<>>
    /\ Awaited(pending)
    /\ Remaining(Innermost)
    /\ NextEntry(Innermost).kind = "file"
    /\ LET file == NextPath(Innermost)
           fileName == NextEntry(Innermost).name
           k == matchedSong(fileName, scanSongs)
       IN IF k = 0
          THEN /\ log' = Append(log, [file |-> file, name |-> fileName, song |-> 0, outcome |-> "skipped"])
               /\ UNCHANGED pending
          ELSE /\ log' = Append(log, [file |-> file, name |-> fileName, song |-> k, outcome |-> "pending"])
               /\ pending' = Append(pending, [file |-> file, songId |-> scanSongs[k].id,
                                              isAudio |-> isAudio(fileName), isLrc |-> isLrc(fileName),
                                              type |-> IF isAudio(fileName) THEN "audio" ELSE "lrc"])
    /\ iterators' = Advanced
    /\ UNCHANGED <<scanSongs, dirHandle, store, matchedSongsMap, counters, result>>
    /\ UNCHANGED <<singer, activeSongId, songSortConfig, importVars, extraVars>>

\* the loop body for a directory: await scanDirectory(entry)
scanDirectory ==
    /\ iterators # <<>>
    /\ Awaited(pending)
    /\ Remaining(Innermost)
    /\ NextEntry(Innermost).kind = "directory"
    /\ iterators' = Append(Advanced, [directory |-> NextPath(Innermost), next |-> 1])
    /\ UNCHANGED <<scanSongs, dirHandle, pending, store, matchedSongsMap, counters, log, result>>
    /\ UNCHANGED <<singer, activeSongId, songSortConfig, importVars, extraVars>>

\* the loop over a subdirectory ends: its scanDirectory call returns
scanDirectoryReturns ==
    /\ Len(iterators) > 1
    /\ Awaited(pending)
    /\ ~Remaining(Innermost)
    /\ iterators' = SubSeq(iterators, 1, Len(iterators) - 1)
    /\ UNCHANGED <<scanSongs, dirHandle, pending, store, matchedSongsMap, counters, log, result>>
    /\ UNCHANGED <<singer, activeSongId, songSortConfig, importVars, extraVars>>

Without(calls, k) == SubSeq(calls, 1, k - 1) \o SubSeq(calls, k + 1, Len(calls))
Settled(entries, file, outcome) ==
    [k \in 1..Len(entries) |->
        IF entries[k].file = file /\ entries[k].outcome = "pending"
        THEN [entries[k] EXCEPT !.outcome = outcome]
        ELSE entries[k]]

\* matchedSongsMap.get(songId) || {}
existingUpdate(map, songId) == IF songId \in DOMAIN map THEN map[songId] ELSE <<>>

\* setFileHandle resolves, and a handle already stored for the song is kept
setFileHandleResolves_KeepsFirst ==
    \E k \in 1..Len(pending) :
      LET call == pending[k]
          update == (IF call.isAudio THEN ("hasAudio" :> TRUE) ELSE <<>>) @@
                    (IF call.isLrc THEN ("hasLrc" :> TRUE) ELSE <<>>) @@
                    existingUpdate(matchedSongsMap, call.songId)
      IN /\ store' = store @@ (<<call.songId, call.type>> :> call.file)
         /\ counters' = [audio |-> counters.audio + (IF call.isAudio THEN 1 ELSE 0),
                         lrc |-> counters.lrc + (IF call.isLrc THEN 1 ELSE 0)]
         /\ matchedSongsMap' = (call.songId :> update) @@ matchedSongsMap
         /\ pending' = Without(pending, k)
         /\ log' = Settled(log, call.file, "persisted")
         /\ UNCHANGED <<scanSongs, dirHandle, iterators, result>>
         /\ UNCHANGED <<singer, activeSongId, songSortConfig, importVars, extraVars>>
\* setFileHandle resolves: the rest of the try block of matchAndPersist
setFileHandleResolves ==
    \E k \in 1..Len(pending) :
      LET call == pending[k]
          update == (IF call.isAudio THEN ("hasAudio" :> TRUE) ELSE <<>>) @@
                    (IF call.isLrc THEN ("hasLrc" :> TRUE) ELSE <<>>) @@
                    existingUpdate(matchedSongsMap, call.songId)
      IN /\ store' = (<<call.songId, call.type>> :> call.file) @@ store
         /\ counters' = [audio |-> counters.audio + (IF call.isAudio THEN 1 ELSE 0),
                         lrc |-> counters.lrc + (IF call.isLrc THEN 1 ELSE 0)]
         /\ matchedSongsMap' = (call.songId :> update) @@ matchedSongsMap
         /\ pending' = Without(pending, k)
         /\ log' = Settled(log, call.file, "persisted")
         /\ UNCHANGED <<scanSongs, dirHandle, iterators, result>>
         /\ UNCHANGED <<singer, activeSongId, songSortConfig, importVars, extraVars>>

\* setFileHandle rejects, and the file is counted and flagged all the same
setFileHandleRejects_Counted ==
    \E k \in 1..Len(pending) :
      LET call == pending[k]
          update == (IF call.isAudio THEN ("hasAudio" :> TRUE) ELSE <<>>) @@
                    (IF call.isLrc THEN ("hasLrc" :> TRUE) ELSE <<>>) @@
                    existingUpdate(matchedSongsMap, call.songId)
      IN /\ counters' = [audio |-> counters.audio + (IF call.isAudio THEN 1 ELSE 0),
                         lrc |-> counters.lrc + (IF call.isLrc THEN 1 ELSE 0)]
         /\ matchedSongsMap' = (call.songId :> update) @@ matchedSongsMap
         /\ pending' = Without(pending, k)
         /\ log' = Settled(log, call.file, "failed")
         /\ UNCHANGED <<scanSongs, dirHandle, iterators, store, result>>
         /\ UNCHANGED <<singer, activeSongId, songSortConfig, importVars, extraVars>>
\* setFileHandle rejects: the catch block of matchAndPersist
setFileHandleRejects ==
    \E k \in 1..Len(pending) :
      /\ pending' = Without(pending, k)
      /\ log' = Settled(log, pending[k].file, "failed")
      /\ UNCHANGED <<scanSongs, dirHandle, iterators, store, matchedSongsMap, counters, result>>
      /\ UNCHANGED <<singer, activeSongId, songSortConfig, importVars, extraVars>>

\* { ...updates, ...song }: the fields of the song win over the updates
updatedSongs_SongWins(songs, map) ==
    [k \in 1..Len(songs) |->
        IF songs[k].id \in DOMAIN map THEN songs[k] @@ map[songs[k].id] ELSE songs[k]]
\* { ...song, ...updates } for the songs with an entry in the map
updatedSongs(songs, map) ==
    [k \in 1..Len(songs) |->
        IF songs[k].id \in DOMAIN map THEN map[songs[k].id] @@ songs[k] ELSE songs[k]]

\* the outermost loop has ended: the scan returns its MatchingResult
scanReturns ==
    /\ Len(iterators) = 1
    /\ Awaited(pending)
    /\ ~Remaining(Innermost)
    /\ iterators' = <<>>
    /\ result' = [updatedSongs |-> updatedSongs(scanSongs, matchedSongsMap),
                  matchedAudioCount |-> counters.audio,
                  matchedLrcCount |-> counters.lrc]
    /\ UNCHANGED <<scanSongs, dirHandle, pending, store, matchedSongsMap, counters, log>>
    /\ UNCHANGED <<singer, activeSongId, songSortConfig, importVars, extraVars>>

NextScan ==
    \/ matchAndPersist
    \/ scanDirectory
    \/ scanDirectoryReturns
    \/ setFileHandleResolves
    \/ setFileHandleRejects
    \/ scanReturns

---------------------------------------------------------------------------
(* The song lists and directories scanned *)

\* "Yesterday", "Day", "Track Two", "  ", "MP3"
Yesterday == <<89, 101, 115, 116, 101, 114, 100, 97, 121>>
Day == <<68, 97, 121>>
TrackTwo == <<84, 114, 97, 99, 107, 32, 84, 119, 111>>
Blank == <<32, 32>>
MP3 == <<77, 80, 51>>

\* "01. Yesterday.mp3", "day.LRC", "notes.txt", "B-Side_Track.flac", ".mp3"
File01YesterdayMp3 == <<48, 49, 46, 32>> \o Yesterday \o <<46, 109, 112, 51>>
FileDayLrc == <<100, 97, 121, 46, 76, 82, 67>>
FileNotesTxt == <<110, 111, 116, 101, 115, 46, 116, 120, 116>>
FileBSideTrackFlac ==
    <<66, 45, 83, 105, 100, 101, 95, 84, 114, 97, 99, 107, 46, 102, 108, 97, 99>>
FileDotMp3 == <<46, 109, 112, 51>>

ScanSong(id, title, flagged) ==
    IF flagged
    THEN [id |-> id, title |-> title, scores |-> ZeroScores, hasAudio |-> TRUE, hasLrc |-> FALSE]
    ELSE [id |-> id, title |-> title, scores |-> ZeroScores]

\* the song lists of at most max songs with these titles: ids all different
\* or all the same, the media flags present or not
SongLists(titles, max) ==
    UNION {{[k \in 1..n |-> ScanSong(SongId(IF dupId THEN 1 ELSE k), ts[k], flagged)] :
              ts \in [1..n -> titles], dupId \in BOOLEAN, flagged \in BOOLEAN} : n \in 0..max}

\* the entry sequences holding n files in all, with names from a set and
\* directories nested at most depth deep
RECURSIVE EntriesWith(_, _, _)
EntriesWith(names, n, depth) ==
    IF n = 0 THEN {<<>>}
    ELSE UNION {
           LET first == (IF k = 1 THEN {File(name) : name \in names} ELSE {}) \cup
                        (IF depth > 0
                         THEN {Directory(es) : es \in EntriesWith(names, k, depth - 1)}
                         ELSE {})
           IN {<<e>> \o rest : e \in first, rest \in EntriesWith(names, n - k, depth)} :
           k \in 1..n}

ScanTitles == {Yesterday, Day}
ScanNames == {File01YesterdayMp3, FileDayLrc, FileNotesTxt}

ScanStarted ==
    /\ iterators = <<[directory |-> <<>>, next |-> 1]>>
    /\ pending = <<>>
    /\ store = <<>>
    /\ matchedSongsMap = <<>>
    /\ counters = [audio |-> 0, lrc |-> 0]
    /\ log = <<>>
    /\ result = UNDEFINED
    /\ imported = UNDEFINED
    /\ sanitized = UNDEFINED
    /\ singers = JArr(<<>>)
    /\ mounted = TRUE
    /\ ExtraIdle
    /\ StartEntry

\* SpecScan: scans of small directories
InitScan ==
    /\ scanSongs \in SongLists(ScanTitles, MaxScanSongs)
    /\ dirHandle \in UNION {EntriesWith(ScanNames, n, 1) : n \in 0..MaxScanFiles}
    /\ ScanStarted

SpecScan == InitScan /\ [][NextScan]_vars

MatchTitles == {Yesterday, Day, TrackTwo, Blank, MP3}
MatchNames == {File01YesterdayMp3, FileDayLrc, FileNotesTxt, FileBSideTrackFlac, FileDotMp3}

\* SpecMatch: scans of one file
InitMatch ==
    /\ scanSongs \in SongLists(MatchTitles, MaxMatchSongs)
    /\ dirHandle \in EntriesWith(MatchNames, 1, 1)
    /\ ScanStarted

SpecMatch == InitMatch /\ [][NextScan]_vars

---------------------------------------------------------------------------
(* utils.ts: parseLrc.  The text is a sequence of character codes *)

\* str.split(sep) for a separator of one character
RECURSIVE split(_, _)
split(str, sep) ==
    LET Cut(at) ==
            IF at = {} THEN <<str>>
            ELSE <<SubSeq(str, 1, (CHOOSE k \in at : \A j \in at : k <= j) - 1)>> \o
                 split(SubSeq(str, (CHOOSE k \in at : \A j \in at : k <= j) + 1, Len(str)), sep)
    IN Cut({k \in 1..Len(str) : str[k] = sep})

\* the characters "." of a regular expression does not match
IsLineTerminator(c) == c \in {10, 13, 8232, 8233}

\* (.*): the longest run of characters that are not line terminators
RECURSIVE DotStar(_)
DotStar(s) ==
    IF s # <<>> /\ ~IsLineTerminator(Head(s)) THEN <<Head(s)>> \o DotStar(Tail(s)) ELSE <<>>

\* line.match(/^\[(\d{2}):(\d{2})\.(\d{2,3})\](.*)/): the four groups, or
\* null; "[" is 91, ":" 58, "." 46, "]" 93
LrcMatch(line) ==
    LET Digits(from, to) == \A k \in from..to : IsDigit(line[k])
        Tagged(n) ==
            /\ Len(line) >= 8 + n
            /\ line[1] = 91 /\ Digits(2, 3)
            /\ line[4] = 58 /\ Digits(5, 6)
            /\ line[7] = 46 /\ Digits(8, 7 + n)
            /\ line[8 + n] = 93
        Groups(n) ==
            [minutes |-> SubSeq(line, 2, 3), seconds |-> SubSeq(line, 5, 6),
             fraction |-> SubSeq(line, 8, 7 + n),
             rest |-> DotStar(SubSeq(line, 9 + n, Len(line)))]
    IN IF Tagged(3) THEN Groups(3) ELSE IF Tagged(2) THEN Groups(2) ELSE JNull

\* parseInt(str, 10) of a string of decimal digits
parseInt(str) == DigitsValue(str, 0)

\* String.prototype.trim
trim(str) == Reverse(TrimStart(Reverse(TrimStart(str))))

\* the time of a cue, every fraction taken as milliseconds
LrcTime_Thousandths(minutes, seconds, milliseconds, digits) ==
    Add(Num(minutes * 60 + seconds), Rat(milliseconds, 1000))
\* minutes * 60 + seconds + milliseconds / (match[3].length === 3 ? 1000 : 100)
LrcTime(minutes, seconds, milliseconds, digits) ==
    Add(Num(minutes * 60 + seconds), Rat(milliseconds, IF digits = 3 THEN 1000 ELSE 100))

\* the callback of lines.forEach: what one line pushes onto lrcData
LrcPushed(line) ==
    LET Cue(match, text) ==
            IF text # <<>>
            THEN <<[time |-> LrcTime(parseInt(match.minutes), parseInt(match.seconds),
                                     parseInt(match.fraction), Len(match.fraction)),
                    text |-> text]>>
            ELSE <<>>
        Matched(match) == IF match # JNull THEN Cue(match, trim(match.rest)) ELSE <<>>
    IN Matched(LrcMatch(line))

RECURSIVE LrcForEach(_)
LrcForEach(lines) ==
    IF lines = <<>> THEN <<>> ELSE LrcPushed(Head(lines)) \o LrcForEach(Tail(lines))

\* the signs of (a, b) => a.time - b.time
TimeMatrix(cues) ==
    [i \in 1..Len(cues) |-> [j \in 1..Len(cues) |-> SignOf(Sub(cues[i].time, cues[j].time))]]

parseLrc(content) ==
    LET Sorted(cues) == ArraySort(cues, TimeMatrix(cues))
    IN Sorted(LrcForEach(split(content, 10)))

---------------------------------------------------------------------------
(* SpecLrc: parseLrc applied to short lyric files *)

\* "[00:12.50]", "[00:05.00]", "[01:02.345]", "[00:12.500]", "[99:99.99]"
Tag1250 == <<91, 48, 48, 58, 49, 50, 46, 53, 48, 93>>
Tag0500 == <<91, 48, 48, 58, 48, 53, 46, 48, 48, 93>>
Tag62345 == <<91, 48, 49, 58, 48, 50, 46, 51, 52, 53, 93>>
Tag12500 == <<91, 48, 48, 58, 49, 50, 46, 53, 48, 48, 93>>
Tag999999 == <<91, 57, 57, 58, 57, 57, 46, 57, 57, 93>>
\* "Hello", "World"
Hello == <<72, 101, 108, 108, 111>>
World == <<87, 111, 114, 108, 100>>

\* the lines of the files: tagged lines, a tied time, a padded text, empty
\* and blank texts, a fraction of one and of four digits ("[00:05.5]x",
\* "[00:05.1234]x"), a space before the tag, no tag, an empty line, a line
\* that ends in a carriage return and one whose text starts with it
LrcLines ==
    { Tag1250 \o Hello,
      Tag0500 \o World,
      Tag62345 \o <<32, 72, 105, 32>>,
      Tag12500 \o Hello,
      Tag999999 \o <<122>>,
      Tag0500,
      Tag0500 \o <<32, 32>>,
      <<91, 48, 48, 58, 48, 53, 46, 53, 93, 120>>,
      <<91, 48, 48, 58, 48, 53, 46, 49, 50, 51, 52, 93, 120>>,
      <<32>> \o Tag0500 \o <<120>>,
      Hello,
      <<>>,
      Tag1250 \o Hello \o <<13>>,
      Tag0500 \o <<13, 120>> }

\* lines.join('\n')
RECURSIVE JoinLines(_)
JoinLines(lines) ==
    IF lines = <<>> THEN <<>>
    ELSE IF Len(lines) = 1 THEN lines[1]
    ELSE lines[1] \o <<10>> \o JoinLines(Tail(lines))

LrcContents == UNION {{JoinLines(lines) : lines \in [1..n -> LrcLines]} : n \in 0..MaxLrcLines}

InitLrc ==
    /\ lrcContent \in LrcContents
    /\ lrcData = UNDEFINED
    /\ imported = UNDEFINED
    /\ sanitized = UNDEFINED
    /\ singers = JArr(<<>>)
    /\ mounted = TRUE
    /\ ScanIdle
    /\ EntryIdle
    /\ ShowIdle
    /\ StartEntry

ParseLrc ==
    /\ lrcData = UNDEFINED
    /\ lrcData' = JArr(parseLrc(lrcContent))
    /\ UNCHANGED <<singer, activeSongId, songSortConfig, importVars, scanVars, lrcContent, entryVars, showVars>>

NextLrc == ParseLrc

SpecLrc == InitLrc /\ [][NextLrc]_vars

---------------------------------------------------------------------------
(* The values typed into the score inputs *)

ScoreInputs(field) ==
    IF field = "lyrics" THEN {Zero, EPS}
    ELSE IF field = "composition" THEN {Zero, Times(2, EPS)}
    ELSE {Zero, Times(5, EPS)}

TableInputs(field) ==
    IF field = "lyrics" THEN {Zero, EPS, Times(2, EPS)}
    ELSE IF field = "composition" THEN {Zero, Times(2, EPS)}
    ELSE {Zero}

WindowInputs(field) ==
    IF field = "composition" THEN {Zero, EPS} ELSE {Zero}

---------------------------------------------------------------------------
(* Spec: the data-entry view on a stored catalog *)

\* the App after its start-up, with nothing handed to the sanitizer
StartApp ==
    /\ imported = UNDEFINED
    /\ sanitized = UNDEFINED
    /\ singers = JArr(<<>>)
    /\ mounted = TRUE
    /\ ScanIdle
    /\ ExtraIdle

StartViews ==
    /\ activeSongId = NULL
    /\ songSortConfig = [key |-> "total", direction |-> "desc"]
    /\ StartApp

Init ==
    /\ \E sizes \in Shapes(MaxSongs), dupId \in BOOLEAN :
           singer = StoredSinger(sizes, dupId)
    /\ StartViews

EditScore ==
    \E a \in 1..Len(singer.albums) :
      \E k \in 1..Len(singer.albums[a].songs) :
        \E field \in Fields :
          \E value \in ScoreInputs(field) :
            handleUpdateScore(singer.albums[a].id, singer.albums[a].songs[k].id, field, value)

Next == EditScore

Spec == Init /\ [][Next]_vars

---------------------------------------------------------------------------
(* SpecTies: the data-entry view on one album of up to MaxTieSongs songs *)

InitTies ==
    /\ \E n \in 0..MaxTieSongs : singer = StoredSinger(<<n>>, FALSE)
    /\ StartViews

EditTieScore ==
    \E k \in 1..Len(singer.albums[1].songs) :
      \E field \in Fields :
        \E value \in ScoreInputs(field) :
          handleUpdateScore(singer.albums[1].id, singer.albums[1].songs[k].id, field, value)

NextTies == EditTieScore

SpecTies == InitTies /\ [][NextTies]_vars

---------------------------------------------------------------------------
(* SpecTable: the dashboard's song table on a stored catalog *)

TableShapes == {<<n>> : n \in 0..MaxTableSongs}

InitTable ==
    /\ \E sizes \in TableShapes : singer = StoredSinger(sizes, FALSE)
    /\ StartViews

EditTableScore ==
    \E k \in 1..Len(singer.albums[1].songs) :
      \E field \in Fields :
        \E value \in TableInputs(field) :
          dashboardUpdateScore(singer.albums[1].id, singer.albums[1].songs[k].id, field, value)

SortTable == \E key \in SortKeys : handleSort(key)

NextTable == EditTableScore \/ SortTable

SpecTable == InitTable /\ [][NextTable]_vars

---------------------------------------------------------------------------
(* SpecWindow: the ranking preview of the data-entry view on longer lists *)

InitWindow ==
    /\ \E n \in 0..MaxWindowSongs, dupId \in BOOLEAN : singer = StoredSinger(<<n>>, dupId)
    /\ StartViews

EditWindowScore ==
    \E k \in 1..Len(singer.albums[1].songs) :
      \E field \in Fields :
        \E value \in WindowInputs(field) :
          handleUpdateScore(singer.albums[1].id, singer.albums[1].songs[k].id, field, value)

FocusWindowSong ==
    \E k \in 1..Len(singer.albums[1].songs) : focusSong(singer.albums[1].songs[k].id)

NextWindow == EditWindowScore \/ FocusWindowSong

SpecWindow == InitWindow /\ [][NextWindow]_vars

---------------------------------------------------------------------------
(* Properties *)

DistinctSongIds(songs) ==
    \A i, j \in 1..Len(songs) : i # j => songs[i].id # songs[j].id

\* sign of the core comparison of the i-th and the j-th song of the catalog
CoreSign(i, j) == SignOf(sortSongsAlgorithm(allSongs[i], allSongs[j]))

TotalsTied(a, b) == Less(Abs(Sub(a.totalScore, b.totalScore)), EPS)

\* the example pair of the specification: A (total 7.000, composition 8),
\* B (total 7.0005, composition 5)
ExampleA == [totalScore |-> Num(7), scores |-> [composition |-> Num(8)]]
ExampleB == [totalScore |-> Rat(70005, 10000), scores |-> [composition |-> Num(5)]]

\* C1: in the core ordering, of two songs whose totals differ by less than
\* 0.001 the one with the higher composition score is ordered first, and of
\* two songs whose totals differ by 0.001 or more the one with the higher
\* total is ordered first; a catalog of two such songs is sorted that way,
\* and example A is ordered before example B.
C1_CoreOrdering ==
    /\ \A i, j \in 1..Len(allSongs) :
         LET a == allSongs[i]
             b == allSongs[j]
             aFirst == IF TotalsTied(a, b)
                       THEN Less(b.scores.composition, a.scores.composition)
                       ELSE Less(b.totalScore, a.totalScore)
         IN aFirst => /\ CoreSign(i, j) < 0
                      /\ CoreSign(j, i) > 0
                      /\ Len(allSongs) = 2 => SortCore(allSongs) = <<a, b>>
    /\ SignOf(sortSongsAlgorithm(ExampleA, ExampleB)) < 0
    /\ SignOf(sortSongsAlgorithm(ExampleB, ExampleA)) > 0

\* C1 witness: a catalog of two songs where the second has the higher total
\* (by exactly 0.001) and the lower composition score, and the sort has moved
\* it to the front
C1_Witness ==
    /\ Len(allSongs) = 2
    /\ ~TotalsTied(allSongs[1], allSongs[2])
    /\ Less(allSongs[1].totalScore, allSongs[2].totalScore)
    /\ Less(allSongs[2].scores.composition, allSongs[1].scores.composition)
    /\ SortCore(allSongs) = <<allSongs[2], allSongs[1]>>

\* C2 (as claimed): the core comparison is transitive, both as "ordered
\* before" and as "tied"
C2_CoreOrderTransitive ==
    \A i, j, k \in 1..Len(allSongs) :
        /\ (CoreSign(i, j) < 0 /\ CoreSign(j, k) < 0) => CoreSign(i, k) < 0
        /\ (CoreSign(i, j) = 0 /\ CoreSign(j, k) = 0) => CoreSign(i, k) = 0

\* C3 (as claimed): two songs of a catalog with distinct ids whose totals are
\* within 0.001 and whose composition scores are equal keep their encounter
\* order in the ranking
C3_TiesKeepEncounterOrder ==
    DistinctSongIds(allSongs) =>
        \A i, j \in 1..Len(allSongs) :
            (i < j /\ TotalsTied(allSongs[i], allSongs[j])
                   /\ allSongs[i].scores.composition = allSongs[j].scores.composition)
            => FindIndexById(SortCore(allSongs), allSongs[i].id)
                 < FindIndexById(SortCore(allSongs), allSongs[j].id)

\* rank of the k-th song of the catalog on the dashboard
DashboardRank(k) == songsWithRank(allSongs)[k].rank

\* C4: in a catalog with pairwise distinct song ids the dashboard rank of a
\* song is its 1-based position in the core ordering of all songs, the ranks
\* cover exactly 1..N, and the overall rank of the data-entry view, the
\* absolute rank in the ranking preview and the countdown rank of the song
\* are that same number.
C4_RankIsPosition ==
    DistinctSongIds(allSongs) =>
        LET N == Len(allSongs)
            sorted == SortCore(allSongs)
            countdown == getPresentationSongs(singer)
        IN /\ {DashboardRank(k) : k \in 1..N} = 1..N
           /\ \A k \in 1..N :
                LET id == allSongs[k].id
                    r == DashboardRank(k)
                    neighbors == rankingNeighbors(allSongs, id)
                IN /\ r \in 1..N
                   /\ sorted[r] = allSongs[k]
                   /\ activeSongStats(allSongs, albumsWithStats, id).rankOverall = r
                   /\ \E t \in 1..Len(neighbors) : neighbors[t].isCurrent
                   /\ \A t \in 1..Len(neighbors) :
                        neighbors[t].isCurrent => neighbors[t].absoluteRank = r
                   /\ \E t \in 1..Len(countdown) : countdown[t].id = id
                   /\ \A t \in 1..Len(countdown) :
                        countdown[t].id = id => countdown[t].rank = r

\* C4 witness: songs with distinct ids in two albums, the first of the
\* catalog is focused and is ranked last
C4_Witness ==
    /\ DistinctSongIds(allSongs)
    /\ Len(singer.albums) = 2
    /\ Len(allSongs) = 2
    /\ activeSongId = allSongs[1].id
    /\ allSongs[1].albumId # allSongs[Len(allSongs)].albumId
    /\ DashboardRank(1) = Len(allSongs)
    /\ activeSongStats(allSongs, albumsWithStats, activeSongId).rankOverall = Len(allSongs)

\* C5: the countdown has one entry per song, the entry at 0-based position k
\* has rank N - k and is the song at 1-based position N - k of the core
\* ordering; a singer without songs gives the empty countdown, for which the
\* presentation view renders its no-data screen.
C5_Countdown ==
    LET N == Len(allSongs)
        sorted == SortCore(allSongs)
        countdown == getPresentationSongs(singer)
    IN /\ Len(countdown) = N
       /\ \A k \in 0..(N - 1) :
            /\ countdown[k + 1].rank = N - k
            /\ countdown[k + 1] = [rank |-> N - k] @@ sorted[N - k]
       /\ \A p \in 1..N :
            Cardinality({k \in 1..N : countdown[k] = [rank |-> countdown[k].rank] @@ allSongs[p]})
              = Cardinality({k \in 1..N : allSongs[k] = allSongs[p]})
       /\ N = 0 => /\ countdown = <<>>
                   /\ renderPresentation(countdown, 0) = "noData"
       /\ N > 0 => renderPresentation(countdown, 0) = "song"

\* C5 witness: two songs with different totals, the countdown opens with the
\* first song of the catalog at rank 2 and closes with the second at rank 1
C5_Witness ==
    /\ Len(allSongs) = 2
    /\ ~TotalsTied(allSongs[1], allSongs[2])
    /\ getPresentationSongs(singer)[1].rank = 2
    /\ getPresentationSongs(singer)[1] = [rank |-> 2] @@ allSongs[1]
    /\ getPresentationSongs(singer)[2].rank = 1
    /\ getPresentationSongs(singer)[2] = [rank |-> 1] @@ allSongs[2]

\* number of songs in the albums before the a-th
SongsBefore(a) == SumSizes([b \in 1..(a - 1) |-> Len(singer.albums[b].songs)])

\* C9: allSongs holds the songs album by album and track by track, each with
\* totalScore = (lyrics + composition + arrangement) / 3, which is not
\* negative when no dimension is, and with the id, title, year and cover of
\* the album that owns it.
C9_AllSongs ==
    /\ Len(allSongs) = SongsBefore(Len(singer.albums) + 1)
    /\ \A a \in 1..Len(singer.albums) :
         \A k \in 1..Len(singer.albums[a].songs) :
            LET album == singer.albums[a]
                song == album.songs[k]
                entry == allSongs[SongsBefore(a) + k]
                sum == Add(Add(song.scores.lyrics, song.scores.composition),
                           song.scores.arrangement)
            IN /\ entry.id = song.id
               /\ entry.title = song.title
               /\ entry.scores = song.scores
               /\ Times(3, entry.totalScore) = sum
               /\ (\A f \in Fields : ~Less(song.scores[f], Zero))
                     => ~Less(entry.totalScore, Zero)
               /\ entry.albumId = album.id
               /\ entry.albumName = album.title
               /\ entry.albumYear = album.year
               /\ entry.albumCover = album.coverUrl

\* C9 witness: two albums with songs; the last entry of allSongs belongs to
\* the second album and has a total that is not a whole number of thousandths
C9_Witness ==
    /\ Len(singer.albums) = 2
    /\ Len(singer.albums[1].songs) > 0
    /\ Len(singer.albums[2].songs) > 0
    /\ allSongs[Len(allSongs)].albumId = singer.albums[2].id
    /\ allSongs[Len(allSongs)].totalScore = Rat(1, 3000)

RECURSIVE SumOfField(_, _)
SumOfField(songs, f) ==
    IF songs = <<>> THEN Zero ELSE Add(Head(songs).scores[f], SumOfField(Tail(songs), f))

\* C10: albumsWithStats holds one entry per album, in album order; the four
\* averages of an album with songs are the sums of the songs' lyrics,
\* composition, arrangement and total divided by the number of songs, and
\* those of an album without songs are 0.
C10_AlbumAverages ==
    /\ Len(albumsWithStats) = Len(singer.albums)
    /\ \A a \in 1..Len(singer.albums) :
         LET album == singer.albums[a]
             stats == albumsWithStats[a]
             n == Len(album.songs)
             sumL == SumOfField(album.songs, "lyrics")
             sumC == SumOfField(album.songs, "composition")
             sumA == SumOfField(album.songs, "arrangement")
         IN /\ \A f \in DOMAIN album : stats[f] = album[f]
            /\ n = 0 => /\ stats.averageLyrics = Zero
                        /\ stats.averageComposition = Zero
                        /\ stats.averageArrangement = Zero
                        /\ stats.averageTotal = Zero
            /\ n > 0 => /\ Times(n, stats.averageLyrics) = sumL
                        /\ Times(n, stats.averageComposition) = sumC
                        /\ Times(n, stats.averageArrangement) = sumA
                        /\ Times(3 * n, stats.averageTotal) = Add(Add(sumL, sumC), sumA)

\* C10 witness: an album without songs next to an album of two songs whose
\* lyrics, composition and arrangement averages are 0.0005, 0.001 and 0.0025
C10_Witness ==
    /\ Len(singer.albums) = 2
    /\ Len(singer.albums[1].songs) = 0
    /\ Len(singer.albums[2].songs) = 2
    /\ albumsWithStats[1].averageTotal = Zero
    /\ albumsWithStats[2].averageLyrics = Rat(1, 2000)
    /\ albumsWithStats[2].averageComposition = Rat(1, 1000)
    /\ albumsWithStats[2].averageArrangement = Rat(5, 2000)

\* 0-based indices of the core-sorted list at which the focused song stands
FocalIndices ==
    {i \in 0..(Len(allSongs) - 1) : SortCore(allSongs)[i + 1].id = activeSongId}

\* the ranking preview of the focused song is the window around index i
NeighbourhoodAround(i) ==
    LET N == Len(allSongs)
        sorted == SortCore(allSongs)
        neighbors == rankingNeighbors(allSongs, activeSongId)
        highest == IF N - 5 > 0 THEN N - 5 ELSE 0
        lo == IF i - 2 < 0 THEN 0 ELSE IF i - 2 > highest THEN highest ELSE i - 2
    IN /\ Len(neighbors) = (IF N < 5 THEN N ELSE 5)
       /\ \A t \in 1..Len(neighbors) :
            /\ neighbors[t].id = sorted[lo + t].id
            /\ neighbors[t].scores = sorted[lo + t].scores
            /\ neighbors[t].title = sorted[lo + t].title
            /\ neighbors[t].absoluteRank = lo + t
            /\ neighbors[t].isCurrent <=> (lo + t = i + 1)
       /\ Cardinality({t \in 1..Len(neighbors) : neighbors[t].isCurrent}) = 1
       /\ N = 3 => Len(neighbors) = 3

\* C6 as amended: for a catalog whose song ids are pairwise distinct and a
\* focal song at 0-based index i of the core-sorted list of N songs, the
\* ranking neighbourhood is the slice of length min(5, N) starting at i - 2
\* clamped into [0, max(0, N - 5)], holds the focal song exactly once, marked
\* isCurrent, gives every item its 1-based position of the full sorted list as
\* absoluteRank, and has 3 items for N = 3.
C6_Neighbourhood ==
    DistinctSongIds(allSongs) => \A i \in FocalIndices : NeighbourhoodAround(i)

\* C6 witness: six songs with distinct ids, the focused song is last of the
\* sorted list and the preview shows ranks 2 to 6
C6_Witness ==
    /\ DistinctSongIds(allSongs)
    /\ Len(allSongs) = 6
    /\ FocalIndices = {5}
    /\ Len(rankingNeighbors(allSongs, activeSongId)) = 5
    /\ rankingNeighbors(allSongs, activeSongId)[1].absoluteRank = 2
    /\ rankingNeighbors(allSongs, activeSongId)[5].isCurrent
    /\ SortCore(allSongs) # allSongs

\* C6 as stated, for every catalog: the neighbourhood of a focal song at
\* index i is the clamped window around i and holds the focal song exactly
\* once.
C6_NeighbourhoodAnyCatalog ==
    \A i \in FocalIndices : NeighbourhoodAround(i)

TotalDesc == [key |-> "total", direction |-> "desc"]

\* C7: the song table sorted by total, descending, lists the ranks 1, 2, ...,
\* N in this order, and the table comparator with key total orders every pair
\* of songs the way the core comparison does.
C7_TableTotalIsRankOrder ==
    DistinctSongIds(allSongs) =>
        LET ranked == songsWithRank(allSongs)
            table == sortData(ranked, TotalDesc)
        IN /\ \A k \in 1..Len(table) : table[k].rank = k
           /\ \A i, j \in 1..Len(ranked) :
                /\ CoreSign(i, j) < 0 => SignOf(sortDataCompare(ranked[i], ranked[j], TotalDesc)) < 0
                /\ CoreSign(i, j) > 0 => SignOf(sortDataCompare(ranked[i], ranked[j], TotalDesc)) > 0

\* C8: for every sort key, the song table in ascending direction is the
\* reverse of the song table in descending direction.
C8_AscendingIsReverse ==
    LET ranked == songsWithRank(allSongs)
    IN \A key \in SortKeys :
          sortData(ranked, [key |-> key, direction |-> "asc"])
            = Reverse(sortData(ranked, [key |-> key, direction |-> "desc"]))

---------------------------------------------------------------------------
(* SpecPartial: the data-entry view on a stored catalog whose score records *)
(* lack dimensions (the stored value is read back as it was written)        *)

\* the score stored for a dimension
StoredScore(field) ==
    IF field = "lyrics" THEN Num(7) ELSE IF field = "composition" THEN Num(8) ELSE Num(6)

\* one album of n songs; song k lacks the dimensions absent[k]
PartialSinger(n, absent) ==
    [id |-> <<"singer">>,
     name |-> <<97>>,
     albums |-> <<[id |-> AlbumId(1),
                   title |-> TitleOf(1),
                   year |-> YearOf(1),
                   coverUrl |-> NULL,
                   songs |-> [k \in 1..n |->
                                [id |-> SongId(k),
                                 title |-> TitleOf(k),
                                 scores |-> [f \in Fields \ absent[k] |-> StoredScore(f)]]]]>>]

InitPartial ==
    /\ \E n \in 0..MaxPartialSongs :
         \E absent \in [1..n -> SUBSET Fields] : singer = PartialSinger(n, absent)
    /\ StartViews

EditPartialScore ==
    \E k \in 1..Len(singer.albums[1].songs) :
      \E field \in Fields :
        \E value \in ScoreInputs(field) :
          handleUpdateScore(singer.albums[1].id, singer.albums[1].songs[k].id, field, value)

NextPartial == EditPartialScore

SpecPartial == InitPartial /\ [][NextPartial]_vars

\* a dimension of a score record, 0 when the record lacks it
DimensionOrZero(scores, field) == IF field \in DOMAIN scores THEN scores[field] ELSE Zero

RECURSIVE SumOrZero(_, _)
SumOrZero(songs, field) ==
    IF songs = <<>> THEN Zero
    ELSE Add(DimensionOrZero(Head(songs).scores, field), SumOrZero(Tail(songs), field))

\* C11: with an absent dimension counted as 0, the total of every song, its
\* enriched totalScore and the averages of its album are the numbers the
\* present dimensions give, and none of them is NaN.
C11_AbsentDimensionIsZero ==
    \A a \in 1..Len(singer.albums) :
       LET album == singer.albums[a]
           stats == albumsWithStats[a]
           n == Len(album.songs)
           sumL == SumOrZero(album.songs, "lyrics")
           sumC == SumOrZero(album.songs, "composition")
           sumA == SumOrZero(album.songs, "arrangement")
       IN /\ \A k \in 1..n :
               LET scores == album.songs[k].scores
                   expected == DivBy(Add(Add(DimensionOrZero(scores, "lyrics"),
                                             DimensionOrZero(scores, "composition")),
                                         DimensionOrZero(scores, "arrangement")), 3)
               IN /\ calculateSongTotal(Prop(scores, "lyrics"), Prop(scores, "composition"),
                                        Prop(scores, "arrangement")) = expected
                  /\ allSongs[SongsBefore(a) + k].totalScore = expected
                  /\ allSongs[SongsBefore(a) + k].totalScore # NaN
          /\ n > 0 =>
               /\ stats.averageLyrics = DivBy(sumL, n)
               /\ stats.averageComposition = DivBy(sumC, n)
               /\ stats.averageArrangement = DivBy(sumA, n)
               /\ stats.averageTotal = DivBy(Add(Add(sumL, sumC), sumA), 3 * n)
               /\ NaN \notin {stats.averageLyrics, stats.averageComposition,
                              stats.averageArrangement, stats.averageTotal}

---------------------------------------------------------------------------
(* Properties of the sanitizer *)

\* the sanitizer has returned a value
Returned == sanitized # UNDEFINED /\ sanitized # TypeError

\* the elements of v when v is an array, no elements otherwise
ElementsOf(v) == IF IsArray(v) THEN v.arr ELSE <<>>

IsFiniteNumber(v) == IsNumber(v) /\ v.d # 0

\* every singer has an albums sequence, every album a songs sequence, every
\* song a scores record of three numbers
WellShapedSong(v) ==
    /\ IsObject(v)
    /\ IsObject(Get(v, "scores"))
    /\ \A f \in Fields : IsNumber(Get(Get(v, "scores"), f)) /\ Get(Get(v, "scores"), f) # NaN

WellShapedAlbum(v) ==
    /\ IsObject(v)
    /\ IsArray(Get(v, "songs"))
    /\ \A k \in 1..Len(Get(v, "songs").arr) : WellShapedSong(Get(v, "songs").arr[k])

WellShapedSinger(v) ==
    /\ IsObject(v)
    /\ IsArray(Get(v, "albums"))
    /\ \A j \in 1..Len(Get(v, "albums").arr) : WellShapedAlbum(Get(v, "albums").arr[j])

WellShapedCatalog(v) ==
    IsArray(v) /\ \A i \in 1..Len(v.arr) : WellShapedSinger(v.arr[i])

\* C12: for every input value the sanitizer returns, without throwing, a
\* sequence of well-formed singers: the empty sequence for an input that is
\* not a sequence, otherwise one singer per element, with no albums where the
\* element's albums are not a sequence and no songs where an album's songs
\* are not a sequence.
C12_SanitizerTotal ==
    sanitized # UNDEFINED =>
        /\ sanitized # TypeError
        /\ WellShapedCatalog(sanitized)
        /\ ~IsArray(imported) => sanitized = JArr(<<>>)
        /\ IsArray(imported) =>
             /\ Len(sanitized.arr) = Len(imported.arr)
             /\ \A i \in 1..Len(imported.arr) :
                  LET inAlbums == ElementsOf(Get(imported.arr[i], "albums"))
                      outAlbums == Get(sanitized.arr[i], "albums").arr
                  IN /\ Len(outAlbums) = Len(inAlbums)
                     /\ \A j \in 1..Len(inAlbums) :
                          Len(Get(outAlbums[j], "songs").arr)
                            = Len(ElementsOf(Get(inAlbums[j], "songs")))

\* the albums of the i-th singer and the songs of its j-th album
AlbumsOf(v, i) == ElementsOf(Get(v.arr[i], "albums"))
SongsOf(v, i, j) == ElementsOf(Get(AlbumsOf(v, i)[j], "songs"))

\* the positions <<i, j, k>> of the songs of a catalog value
SongPaths(v) ==
    UNION {UNION {{<<i, j, k>> : k \in 1..Len(SongsOf(v, i, j))} :
                     j \in 1..Len(AlbumsOf(v, i))} :
              i \in 1..Len(ElementsOf(v))}

SongAt(v, path) ==
    Get(Get(v.arr[path[1]], "albums").arr[path[2]], "songs").arr[path[3]]

\* a value that is missing or null
Absent(v) == IsNullish(v)

\* the dimension read from a record of scores: the lower-case name or, when
\* that is absent, the capitalised name; 0 when missing or unparsable
Capitalised(field) ==
    IF field = "lyrics" THEN "Lyrics"
    ELSE IF field = "composition" THEN "Composition" ELSE "Arrangement"

DimensionRead(record, field) ==
    LET raw == IF Absent(record) THEN UNDEFINED
               ELSE IF ~Absent(Get(record, field)) THEN Get(record, field)
               ELSE Get(record, Capitalised(field))
    IN IF Absent(raw) \/ ParseFloat(raw) = NaN THEN Zero ELSE ParseFloat(raw)

\* the record a song's scores are read from: the scores key or, when that
\* is absent (or, with falsyIsAbsent, falsy), the score key
ScoresRecord(song, falsyIsAbsent) ==
    LET scores == Get(song, "scores")
    IN IF Absent(scores) \/ (falsyIsAbsent /\ ~Truthy(scores))
       THEN Get(song, "score") ELSE scores

\* the sanitized scores of every song are read from that record, and none
\* of them is NaN
ScoresReadFrom(falsyIsAbsent) ==
    Returned =>
        \A path \in SongPaths(imported) :
           \A f \in Fields :
              LET out == Get(Get(SongAt(sanitized, path), "scores"), f)
              IN /\ out = DimensionRead(ScoresRecord(SongAt(imported, path), falsyIsAbsent), f)
                 /\ out # NaN

\* {title: "X", score: {Lyrics: "7.5", composition: 4}}
ExampleSong ==
    JObj([title |-> JStr(<<88>>),
          score |-> JObj([Lyrics |-> JStr(<<55, 46, 53>>), composition |-> Num(4)])])

ExampleScores ==
    Get(sanitizeSong(ExampleSong, 1, <<1, 1, 1>>), "scores")
      = JObj([lyrics |-> Rat(15, 2), composition |-> Num(4), arrangement |-> Zero])

\* C14 as amended: the sanitizer reads a song's scores from the scores key
\* or, when that is absent or falsy (null, "", 0, false), from the score key,
\* reads each dimension from its lower-case name or, when that is absent,
\* from its capitalised name, and outputs the parsed number, or 0 when the
\* value is missing or unparsable, never NaN; the example song gives lyrics
\* 7.5, composition 4, arrangement 0.
C14_ScoresRead == ScoresReadFrom(TRUE) /\ ExampleScores

\* C14 witness: a sanitized song whose scores were under the score key, with
\* lyrics under the capitalised name: 7.5, 4, 0
C14_Witness ==
    /\ Returned
    /\ \E path \in SongPaths(imported) :
          /\ Absent(Get(SongAt(imported, path), "scores"))
          /\ Get(Get(SongAt(imported, path), "score"), "Lyrics") = JStr(<<55, 46, 53>>)
          /\ Get(SongAt(sanitized, path), "scores")
               = JObj([lyrics |-> Rat(15, 2), composition |-> Num(4), arrangement |-> Zero])

\* C14 as stated: the scores are read from the scores key or, when that is
\* absent, from the score key.
C14_ScoresReadWhenAbsent == ScoresReadFrom(FALSE) /\ ExampleScores

\* the ids of the input next to the ids of the output, for every singer,
\* album and song
IdPairs ==
    {<<Get(imported.arr[i], "id"), Get(sanitized.arr[i], "id")>> :
        i \in 1..Len(ElementsOf(imported))}
    \cup UNION {{<<Get(AlbumsOf(imported, i)[j], "id"), Get(AlbumsOf(sanitized, i)[j], "id")>> :
                    j \in 1..Len(AlbumsOf(imported, i))} :
                 i \in 1..Len(ElementsOf(imported))}
    \cup {<<Get(SongAt(imported, path), "id"), Get(SongAt(sanitized, path), "id")>> :
             path \in SongPaths(imported)}

\* C15: every id of the sanitizer's output is a string: the id of the input
\* when that is a string, a generated id when the input id is missing or is
\* not a string.
C15_IdsAreStrings ==
    Returned =>
        \A pair \in IdPairs :
           /\ IsString(pair[2])
           /\ IsString(pair[1]) => pair[2] = pair[1]
           /\ ~IsString(pair[1]) => Head(pair[2].str) = 103

OptionalKeys == {"comment", "hasAudio", "hasLrc", "highlightStartTime"}

\* a value as JSON writes it: without the keys whose value is undefined
RECURSIVE Plain(_)
Plain(v) ==
    IF IsArray(v) THEN JArr([k \in 1..Len(v.arr) |-> Plain(v.arr[k])])
    ELSE IF IsObject(v)
    THEN JObj([key \in {k \in DOMAIN v.obj : v.obj[k] # UNDEFINED} |-> Plain(v.obj[key])])
    ELSE v

\* a catalog as the application exports it
ExportedSong(v) ==
    /\ WellShapedSong(v)
    /\ IsString(Get(v, "id")) /\ IsString(Get(v, "title"))
    /\ \A f \in Fields : IsFiniteNumber(Get(Get(v, "scores"), f))

ExportedAlbum(v) ==
    /\ WellShapedAlbum(v)
    /\ IsString(Get(v, "id")) /\ IsString(Get(v, "title")) /\ IsString(Get(v, "year"))
    /\ \A k \in 1..Len(Get(v, "songs").arr) : ExportedSong(Get(v, "songs").arr[k])

ExportedCatalog(v) ==
    /\ WellShapedCatalog(v)
    /\ \A i \in 1..Len(v.arr) :
          /\ IsString(Get(v.arr[i], "id")) /\ IsString(Get(v.arr[i], "name"))
          /\ \A j \in 1..Len(AlbumsOf(v, i)) : ExportedAlbum(AlbumsOf(v, i)[j])

\* C16: the sanitized song has the comment, hasAudio, hasLrc and
\* highlightStartTime of the input song, and lacks those the input song
\* lacks; sanitizing an exported catalog gives a catalog equal to it.
C16_OptionalFieldsKept ==
    Returned =>
        /\ \A path \in SongPaths(imported) :
              \A key \in OptionalKeys :
                 Get(SongAt(sanitized, path), key) = Get(SongAt(imported, path), key)
        /\ ExportedCatalog(imported) => Plain(sanitized) = imported

\* C13: the catalog the App holds is at all times a well-formed Singer
\* sequence: every singer has an albums sequence, every album a songs
\* sequence, every song three numeric scores (what the sanitizer returns for
\* whatever is loaded or imported).
C13_CatalogWellFormed == WellShapedCatalog(singers)

---------------------------------------------------------------------------
(* Properties of the file matcher *)

\* name normalisation as specified: the extension stripped, then the leading
\* run of digits, spaces, dots and hyphens, lower case, no white space
NormalizedFileName(fileName) ==
    RemoveWhiteSpace(toLowerCase(StripLeading(substring(fileName, lastIndexOf(fileName, 46)))))
NormalizedTitle(title) == RemoveWhiteSpace(toLowerCase(title))

Supported(fileName) == isAudio(fileName) \/ isLrc(fileName)

\* the songs whose normalised title is non-empty and part of the normalised name
Candidates(fileName) ==
    {k \in 1..Len(scanSongs) :
        /\ NormalizedTitle(scanSongs[k].title) # <<>>
        /\ includes(NormalizedFileName(fileName), NormalizedTitle(scanSongs[k].title))}

Range(f) == {f[x] : x \in DOMAIN f}
Examined == Range(log)

\* C17: a file examined is associated with song S exactly when its extension
\* is an audio extension or lrc (in any case) and S is the first song of the
\* list whose normalised title is non-empty and part of the normalised file
\* name; a file with another extension is not persisted, counted or flagged.
\* "01. Yesterday.mp3" is associated with a song titled "Yesterday" and
\* "B-Side_Track.flac" is not associated with one titled "Track Two".
C17_FileAssociation ==
    \A e \in Examined :
      /\ \A k \in 1..Len(scanSongs) :
           e.song = k <=> /\ Supported(e.name)
                          /\ k \in Candidates(e.name)
                          /\ \A j \in Candidates(e.name) : k <= j
      /\ ~Supported(e.name) =>
           /\ e.outcome = "skipped"
           /\ e.file \notin Range(store)
           /\ \A k \in 1..Len(pending) : pending[k].file # e.file
      /\ e.name = File01YesterdayMp3 /\ (\E k \in 1..Len(scanSongs) : scanSongs[k].title = Yesterday)
           => e.song # 0
      /\ e.name = FileBSideTrackFlac /\ (\A k \in 1..Len(scanSongs) : scanSongs[k].title = TrackTwo)
           => e.song = 0

\* the files below a sequence of entries, in depth-first order: a
\* subdirectory's files come before the entries that follow it
RECURSIVE FilesFrom(_, _, _)
FilesFrom(entries, prefix, k) ==
    IF k > Len(entries) THEN <<>>
    ELSE (IF entries[k].kind = "file"
          THEN <<Append(prefix, k)>>
          ELSE FilesFrom(entries[k].entries, Append(prefix, k), 1))
         \o FilesFrom(entries, prefix, k + 1)
TraversalOrder == FilesFrom(dirHandle, <<>>, 1)

\* the examined files of a media type whose write succeeded
PersistedAudio == {k \in 1..Len(log) : log[k].outcome = "persisted" /\ isAudio(log[k].name)}
PersistedLrc == {k \in 1..Len(log) : log[k].outcome = "persisted" /\ isLrc(log[k].name)}

Flagged(id, flag) ==
    id \in DOMAIN matchedSongsMap /\ flag \in DOMAIN matchedSongsMap[id]

\* C18: a failed write does not end the scan and is neither counted nor
\* flagged: the counters are the numbers of files whose write succeeded, a
\* song id is flagged for a media type exactly when a file of that type
\* matched to it was written, and the scan ends only by returning a result,
\* with these counts, after every file was examined.
C18_FailureIsolated ==
    /\ counters.audio = Cardinality(PersistedAudio)
    /\ counters.lrc = Cardinality(PersistedLrc)
    /\ \A s \in 1..Len(scanSongs) :
         /\ Flagged(scanSongs[s].id, "hasAudio") <=>
              \E k \in PersistedAudio : scanSongs[log[k].song].id = scanSongs[s].id
         /\ Flagged(scanSongs[s].id, "hasLrc") <=>
              \E k \in PersistedLrc : scanSongs[log[k].song].id = scanSongs[s].id
    /\ iterators = <<>> =>
         /\ result # UNDEFINED
         /\ Len(log) = Len(TraversalOrder)
         /\ result.matchedAudioCount = Cardinality(PersistedAudio)
         /\ result.matchedLrcCount = Cardinality(PersistedLrc)

\* a result returned after the write of one file failed and the write of a
\* later file succeeded
C18_Witness ==
    /\ result # UNDEFINED
    /\ \E i, j \in 1..Len(log) :
         i < j /\ log[i].outcome = "failed" /\ log[j].outcome = "persisted"
    /\ result.matchedAudioCount + result.matchedLrcCount = 1

\* C19: files are processed one at a time in traversal order: at most one
\* write is in progress, the files examined so far are the first files of
\* the depth-first order of the directory (a subdirectory's files before
\* the next sibling of it), the write of every file but the last examined
\* has settled, and a result is returned only when every file has been
\* examined and no write is in progress.
C19_OneFileAtATime ==
    /\ Len(pending) <= 1
    /\ Len(log) <= Len(TraversalOrder)
    /\ \A k \in 1..Len(log) : log[k].file = TraversalOrder[k]
    /\ \A k \in 1..(Len(log) - 1) : log[k].outcome # "pending"
    /\ result # UNDEFINED =>
         /\ Len(log) = Len(TraversalOrder)
         /\ pending = <<>>
         /\ \A k \in 1..Len(log) : log[k].outcome # "pending"

\* a result for a directory whose first entry is a subdirectory with a file
\* and whose second entry is a file, both files written
C19_Witness ==
    /\ result # UNDEFINED
    /\ Len(dirHandle) = 2
    /\ dirHandle[1].kind = "directory"
    /\ dirHandle[2].kind = "file"
    /\ Len(log) = 2
    /\ log[1].file = <<1, 1>> /\ log[1].outcome = "persisted"
    /\ log[2].file = <<2>> /\ log[2].outcome = "persisted"

\* the songs a written file of a media type was matched to
MatchedAudio(s) == \E k \in PersistedAudio : log[k].song = s
MatchedLrc(s) == \E k \in PersistedLrc : log[k].song = s

DistinctIds(songs) ==
    \A i, j \in 1..Len(songs) : songs[i].id = songs[j].id => i = j

\* song after is song before, except that the flags named are true
SameButFlags(before, after, audio, lrc) ==
    LET set == (IF audio THEN {"hasAudio"} ELSE {}) \cup (IF lrc THEN {"hasLrc"} ELSE {})
    IN /\ DOMAIN after = DOMAIN before \cup set
       /\ \A f \in DOMAIN after : after[f] = IF f \in set THEN TRUE ELSE before[f]

UpdatedSongsFrame ==
    result # UNDEFINED =>
      /\ Len(result.updatedSongs) = Len(scanSongs)
      /\ \A s \in 1..Len(scanSongs) :
           /\ result.updatedSongs[s].id = scanSongs[s].id
           /\ SameButFlags(scanSongs[s], result.updatedSongs[s], MatchedAudio(s), MatchedLrc(s))

\* C20 (as stated): updatedSongs has the length, ids and order of the song
\* list; a song no written file matched is returned unchanged, a matched song
\* differs only in hasAudio / hasLrc having become true.
C20_UpdatedSongsAnyList == UpdatedSongsFrame

\* C20: the same, for a song list whose ids are pairwise distinct.
C20_UpdatedSongs == DistinctIds(scanSongs) => UpdatedSongsFrame

\* a result for two songs with different ids, one flagged by a written file
\* and the other returned as it was
C20_Witness ==
    /\ result # UNDEFINED
    /\ Len(scanSongs) = 2
    /\ DistinctIds(scanSongs)
    /\ \E s, t \in 1..2 :
         /\ MatchedAudio(s) \/ MatchedLrc(s)
         /\ result.updatedSongs[s] # scanSongs[s]
         /\ ~MatchedAudio(t) /\ ~MatchedLrc(t)
         /\ result.updatedSongs[t] = scanSongs[t]

---------------------------------------------------------------------------
(* Properties of parseLrc *)

\* a line begins with a tag [MM:SS.ff] (n = 2) or [MM:SS.fff] (n = 3)
BeginsWithTag(line, n) ==
    /\ Len(line) >= 8 + n
    /\ <<line[1], line[4], line[7], line[8 + n]>> = <<91, 58, 46, 93>>
    /\ \A k \in {2, 3, 5, 6} \cup (8..(7 + n)) : line[k] \in 48..57

TagDigits(line) == CHOOSE n \in {2, 3} : BeginsWithTag(line, n)

\* the text of a tagged line: what follows the tag on the line, up to the first
\* of the characters in stops if there is one, without the white space around it
CueText(line, stops) ==
    LET after == SubSeq(line, 9 + TagDigits(line), Len(line))
        ends == {k \in 1..Len(after) : after[k] \in stops}
        upTo == IF ends = {} THEN Len(after) ELSE (CHOOSE k \in ends : \A j \in ends : k <= j) - 1
        inked == {k \in 1..upTo : ~IsWhiteSpace(after[k])}
    IN IF inked = {} THEN <<>>
       ELSE SubSeq(after, CHOOSE k \in inked : \A j \in inked : k <= j,
                          CHOOSE k \in inked : \A j \in inked : j <= k)

Digit(line, k) == line[k] - 48

\* minutes*60 + seconds + fraction/100 or fraction/1000
CueTime(line) ==
    LET whole == (10 * Digit(line, 2) + Digit(line, 3)) * 60 + 10 * Digit(line, 5) + Digit(line, 6)
    IN IF TagDigits(line) = 2
       THEN Rat(100 * whole + 10 * Digit(line, 8) + Digit(line, 9), 100)
       ELSE Rat(1000 * whole + 100 * Digit(line, 8) + 10 * Digit(line, 9) + Digit(line, 10), 1000)

\* the positions at which a line starts
LineStarts(content) == {1} \cup {k + 1 : k \in {j \in 1..Len(content) : content[j] = 10}}
LineAt(content, start) ==
    LET feeds == {k \in start..Len(content) : content[k] = 10}
    IN SubSeq(content, start,
              IF feeds = {} THEN Len(content) ELSE (CHOOSE k \in feeds : \A j \in feeds : k <= j) - 1)

\* the starts of the lines that give a cue
CueLines(content, stops) ==
    {start \in LineStarts(content) :
        /\ \E n \in {2, 3} : BeginsWithTag(LineAt(content, start), n)
        /\ CueText(LineAt(content, start), stops) # <<>>}

ExpectedCue(line, stops) == [time |-> CueTime(line), text |-> CueText(line, stops)]

\* "[00:12.50]Hello\n[00:05.00]World"
LrcExample == Tag1250 \o Hello \o <<10>> \o Tag0500 \o World

\* the array returned has one cue for each tagged line with text, for no other
\* line, with the time of the tag, in ascending order of time
LrcAgrees(stops) ==
    lrcData # UNDEFINED =>
      /\ IsArray(lrcData)
      /\ Len(lrcData.arr) = Cardinality(CueLines(lrcContent, stops))
      /\ \A cue \in {ExpectedCue(LineAt(lrcContent, start), stops) : start \in CueLines(lrcContent, stops)} :
           Cardinality({k \in 1..Len(lrcData.arr) : lrcData.arr[k] = cue}) =
           Cardinality({start \in CueLines(lrcContent, stops) :
                          ExpectedCue(LineAt(lrcContent, start), stops) = cue})
      /\ \A i, j \in 1..Len(lrcData.arr) :
           i < j => ~Less(lrcData.arr[j].time, lrcData.arr[i].time)
      /\ lrcContent = LrcExample =>
           lrcData.arr = <<[time |-> Num(5), text |-> World], [time |-> Rat(25, 2), text |-> Hello]>>

\* C21 as stated: parseLrc returns one cue for each line that begins with a
\* tag [MM:SS.ff] or [MM:SS.fff] and has text left after trimming what follows
\* the tag, and none for another line; the time of a cue is minutes*60 +
\* seconds + fraction/100 (two digits) or fraction/1000 (three digits); the
\* cues are in ascending order of time; every text gives an array.
C21_ParseLrcWholeLine == LrcAgrees({})

\* C21: the same, the text of a line being what follows the tag up to the
\* first carriage return, line separator or paragraph separator of the line.
\* "[00:12.50]Hello\n[00:05.00]World" gives World at 5 s, then Hello at 12.5 s.
C21_ParseLrc == LrcAgrees({13, 8232, 8233})

\* three lines out of order, one with a fraction of three digits, parsed
C21_Witness ==
    /\ lrcData # UNDEFINED
    /\ lrcContent = Tag1250 \o Hello \o <<10>> \o Tag62345 \o <<32, 72, 105, 32>> \o <<10>> \o Tag0500 \o World
    /\ Len(lrcData.arr) = 3
    /\ lrcData.arr[1].time = Num(5)
    /\ lrcData.arr[3] = [time |-> Rat(62345, 1000), text |-> <<72, 105>>]

---------------------------------------------------------------------------
(* DataEntryView: the catalog operations *)

\* everything the handlers of the data-entry view leave alone
nonEntryVars == <<songSortConfig, importVars, scanVars, lrcVars, showVars>>

\* generateId(), seed standing for the random digits
newId(seed) == <<"g", seed>>

\* "新歌曲"
NewSongTitle == <<26032, 27468, 26354>>

\* singer.albums.map(a => a.id === albumId ? { ...a, songs: f(a.songs) } : a),
\* f given by its result on each album
MapAlbums(albumId, newSongs) ==
    [a \in 1..Len(singer.albums) |->
        IF singer.albums[a].id = albumId
        THEN [singer.albums[a] EXCEPT !.songs = newSongs[a]]
        ELSE singer.albums[a]]

\* arr.filter(x => x.id !== id)
FilterOutId(arr, id) ==
    LET RECURSIVE Kept(_)
        Kept(k) == IF k = 0 THEN <<>>
                   ELSE IF arr[k].id # id THEN Append(Kept(k - 1), arr[k]) ELSE Kept(k - 1)
    IN Kept(Len(arr))

\* handleSaveAlbum, with the form fields and the album being edited (NULL
\* when the form was opened by openAddAlbumModal)
handleSaveAlbum(editingAlbumId, albumFormTitle, albumFormYear, albumFormCover, seed) ==
    /\ albumFormTitle # <<>> /\ albumFormYear # <<>>
    /\ singer' =
         IF editingAlbumId # NULL
         THEN [singer EXCEPT !.albums =
                 [a \in 1..Len(singer.albums) |->
                     IF singer.albums[a].id = editingAlbumId
                     THEN [singer.albums[a] EXCEPT !.title = albumFormTitle,
                                                   !.year = albumFormYear,
                                                   !.coverUrl = albumFormCover]
                     ELSE singer.albums[a]]]
         ELSE [singer EXCEPT !.albums =
                 Append(singer.albums, [id |-> newId(seed),
                                        title |-> albumFormTitle,
                                        year |-> albumFormYear,
                                        coverUrl |-> albumFormCover,
                                        songs |-> <<>>])]
    /\ UNCHANGED <<activeSongId, entryVars, nonEntryVars>>

\* handleDeleteClick; songId is NULL for an album
handleDeleteClick(type, albumId, songId) ==
    /\ deleteTarget' = [type |-> type, albumId |-> albumId, songId |-> songId]
    /\ UNCHANGED <<singer, activeSongId, clearScoreTarget, dragVars, aiVars, nonEntryVars>>

confirmDelete ==
    /\ deleteTarget # JNull
    /\ singer' =
         IF deleteTarget.type = "album"
         THEN [singer EXCEPT !.albums = FilterOutId(singer.albums, deleteTarget.albumId)]
         ELSE IF deleteTarget.type = "song" /\ deleteTarget.songId # NULL
         THEN [singer EXCEPT !.albums =
                 MapAlbums(deleteTarget.albumId,
                           [a \in 1..Len(singer.albums) |->
                               FilterOutId(singer.albums[a].songs, deleteTarget.songId)])]
         ELSE singer
    /\ deleteTarget' = JNull
    /\ UNCHANGED <<activeSongId, clearScoreTarget, dragVars, aiVars, nonEntryVars>>

handleClearScoresClick(type, albumId, songId) ==
    /\ clearScoreTarget' = [type |-> type, albumId |-> albumId, songId |-> songId]
    /\ UNCHANGED <<singer, activeSongId, deleteTarget, dragVars, aiVars, nonEntryVars>>

confirmClearScores ==
    /\ clearScoreTarget # JNull
    /\ singer' = [singer EXCEPT !.albums =
         MapAlbums(clearScoreTarget.albumId,
                   [a \in 1..Len(singer.albums) |->
                       [k \in 1..Len(singer.albums[a].songs) |->
                           LET song == singer.albums[a].songs[k]
                           IN IF clearScoreTarget.type = "album"
                              THEN [song EXCEPT !.scores = ZeroScores]
                              ELSE IF clearScoreTarget.type = "song"
                                      /\ clearScoreTarget.songId # NULL
                                      /\ song.id = clearScoreTarget.songId
                              THEN [song EXCEPT !.scores = ZeroScores]
                              ELSE song]])]
    /\ clearScoreTarget' = JNull
    /\ UNCHANGED <<activeSongId, deleteTarget, dragVars, aiVars, nonEntryVars>>

\* onChange of the title input of a song
onChangeTitle(albumId, songId, newTitle) ==
    /\ singer' = [singer EXCEPT !.albums =
         MapAlbums(albumId,
                   [a \in 1..Len(singer.albums) |->
                       [k \in 1..Len(singer.albums[a].songs) |->
                           LET song == singer.albums[a].songs[k]
                           IN IF song.id = songId THEN [song EXCEPT !.title = newTitle]
                              ELSE song]])]
    /\ UNCHANGED <<activeSongId, entryVars, nonEntryVars>>

\* [...a.songs, newSong]
WithNewSong_First(songs, newSong) == <<newSong>> \o songs

WithNewSong(songs, newSong) == Append(songs, newSong)

\* onClick of the add-song row of an album
onClickAddSong(albumId, seed) ==
    /\ singer' = [singer EXCEPT !.albums =
         MapAlbums(albumId,
                   [a \in 1..Len(singer.albums) |->
                       WithNewSong(singer.albums[a].songs,
                                   [id |-> newId(seed), title |-> NewSongTitle, scores |-> ZeroScores])])]
    /\ UNCHANGED <<activeSongId, entryVars, nonEntryVars>>

---------------------------------------------------------------------------
(* DataEntryView: the AI dialog *)

\* the track list the service answers for an album title
TracksOf(albumTitle) == <<albumTitle \o <<32, 49>>>>

\* what a call of generateAlbumTracklist may resolve with: the track list, or
\* [] on a failure or without credentials
Tracklists(albumTitle) == {<<>>, TracksOf(albumTitle)}

\* singer.albums.find(a => a.id === albumId), 0 when there is none
FindAlbum(albumId) ==
    LET found == {a \in 1..Len(singer.albums) : singer.albums[a].id = albumId}
    IN IF found = {} THEN 0 ELSE CHOOSE a \in found : \A b \in found : a <= b

\* openAIModal, with handleStartAI up to its await
openAIModal(albumId) ==
    /\ aiTargetAlbumId' = albumId
    /\ IF FindAlbum(albumId) # 0
       THEN /\ isGenerating' = TRUE
            /\ generatedSongs' = <<>>
            /\ aiRequests' = Append(aiRequests, singer.albums[FindAlbum(albumId)].title)
       ELSE UNCHANGED <<isGenerating, generatedSongs, aiRequests>>
    /\ showGenerationConfirm' = TRUE
    /\ UNCHANGED <<singer, activeSongId, dialogVars, dragVars, nonEntryVars>>

\* handleStartAI after its await: the call numbered r resolves with tracks
handleStartAIResumes(r, tracks) ==
    /\ r \in 1..Len(aiRequests)
    /\ generatedSongs' = tracks
    /\ isGenerating' = FALSE
    /\ aiRequests' = SubSeq(aiRequests, 1, r - 1) \o SubSeq(aiRequests, r + 1, Len(aiRequests))
    /\ UNCHANGED <<singer, activeSongId, dialogVars, dragVars, aiTargetAlbumId, showGenerationConfirm, nonEntryVars>>

\* onClose of the AI dialog, and its cancel button
onCloseAI ==
    /\ showGenerationConfirm' = FALSE
    /\ UNCHANGED <<singer, activeSongId, dialogVars, dragVars, aiTargetAlbumId, generatedSongs,
                   isGenerating, aiRequests, nonEntryVars>>

handleConfirmAI(seed) ==
    /\ aiTargetAlbumId # NULL
    /\ singer' = [singer EXCEPT !.albums =
         MapAlbums(aiTargetAlbumId,
                   [a \in 1..Len(singer.albums) |->
                       singer.albums[a].songs \o
                       [k \in 1..Len(generatedSongs) |->
                           [id |-> newId(seed + k - 1), title |-> generatedSongs[k], scores |-> ZeroScores]]])]
    /\ showGenerationConfirm' = FALSE
    /\ aiTargetAlbumId' = NULL
    /\ generatedSongs' = <<>>
    /\ UNCHANGED <<activeSongId, dialogVars, dragVars, isGenerating, aiRequests, nonEntryVars>>

---------------------------------------------------------------------------
(* DataEntryView: drag and drop.  Indices count from 1; albumIndex 0 stands
   for the undefined albumIndex of an album item. *)

DragItem(type, index, albumIndex) == [type |-> type, index |-> index, albumIndex |-> albumIndex]

onMouseDown ==
    /\ isDragHandleActive' = TRUE
    /\ UNCHANGED <<singer, activeSongId, dialogVars, dragItem, dragOverItem, aiVars, nonEntryVars>>

onMouseUp ==
    /\ isDragHandleActive' = FALSE
    /\ UNCHANGED <<singer, activeSongId, dialogVars, dragItem, dragOverItem, aiVars, nonEntryVars>>

\* a drag started off the handle is prevented and leaves everything as it is
handleDragStart(type, index, albumIndex) ==
    /\ isDragHandleActive
    /\ dragItem' = DragItem(type, index, albumIndex)
    /\ UNCHANGED <<singer, activeSongId, dialogVars, dragOverItem, isDragHandleActive, aiVars, nonEntryVars>>

\* the target is of the type dragged and, for a song, of the album dragged from
Accepted_AnyAlbum(type, albumIndex) ==
    /\ dragItem # JNull
    /\ dragItem.type = type

Accepted(type, albumIndex) ==
    /\ dragItem # JNull
    /\ dragItem.type = type
    /\ ~(type = "song" /\ dragItem.albumIndex # albumIndex)

handleDragOver(type, index, albumIndex) ==
    /\ Accepted(type, albumIndex)
    /\ dragOverItem' = DragItem(type, index, albumIndex)
    /\ UNCHANGED <<singer, activeSongId, dialogVars, dragItem, isDragHandleActive, aiVars, nonEntryVars>>

\* const [moved] = arr.splice(sourceIndex, 1); arr.splice(targetIndex, 0, moved)
Moved(arr, sourceIndex, targetIndex) ==
    LET Put(rest, moved) ==
            LET at == IF targetIndex - 1 > Len(rest) THEN Len(rest) ELSE targetIndex - 1
            IN SubSeq(rest, 1, at) \o <<moved>> \o SubSeq(rest, at + 1, Len(rest))
    IN IF sourceIndex \in 1..Len(arr)
       THEN Put(SubSeq(arr, 1, sourceIndex - 1) \o SubSeq(arr, sourceIndex + 1, Len(arr)),
                arr[sourceIndex])
       ELSE Put(arr, UNDEFINED)

handleDragEnd ==
    /\ isDragHandleActive' = FALSE
    /\ dragItem' = JNull
    /\ dragOverItem' = JNull
    /\ singer' =
         IF dragItem = JNull \/ dragOverItem = JNull THEN singer
         ELSE IF dragItem.index = dragOverItem.index THEN singer
         ELSE IF dragItem.type = "album"
         THEN [singer EXCEPT !.albums = Moved(singer.albums, dragItem.index, dragOverItem.index)]
         ELSE IF dragItem.type = "song" /\ dragItem.albumIndex \in 1..Len(singer.albums)
         THEN [singer EXCEPT !.albums[dragItem.albumIndex].songs =
                 Moved(singer.albums[dragItem.albumIndex].songs, dragItem.index, dragOverItem.index)]
         ELSE singer
    /\ UNCHANGED <<activeSongId, dialogVars, aiVars, nonEntryVars>>

---------------------------------------------------------------------------
(* The user of the data-entry view.  A dialog that is open covers the album
   list; while an item is dragged the browser delivers drag events only; the
   mouse button that went down on a handle is released there unless a drag
   starts.  The catalog grows up to MaxCatalogItems albums and songs. *)

Items == Len(singer.albums) + SumSizes([a \in 1..Len(singer.albums) |-> Len(singer.albums[a].songs)])

UsedIds == {singer.albums[a].id : a \in 1..Len(singer.albums)} \cup
           UNION {{singer.albums[a].songs[k].id : k \in 1..Len(singer.albums[a].songs)} :
                      a \in 1..Len(singer.albums)}

\* random digits that give ids not in the catalog, n of them in a row
FreshSeed(n) == CHOOSE seed \in 1..(MaxCatalogItems + 1) :
                    /\ \A k \in 0..(n - 1) : newId(seed + k) \notin UsedIds
                    /\ \A less \in 1..(seed - 1) : \E k \in 0..(n - 1) : newId(less + k) \in UsedIds

NoDialog == deleteTarget = JNull /\ clearScoreTarget = JNull /\ ~showGenerationConfirm
Pressed == NoDialog /\ dragItem = JNull /\ isDragHandleActive
AtList == NoDialog /\ dragItem = JNull /\ ~isDragHandleActive

\* the songs shown, as pairs of album index and song index
ShownSongs == {<<a, k>> \in (1..Len(singer.albums)) \X (1..MaxCatalogItems) :
                   k <= Len(singer.albums[a].songs)}

\* the value typed into a score input
TypedScore == Zero

\* the title typed into a title input: "新歌曲"
TypedTitle == NewSongTitle

\* the view on a singer just added, with no album
InitCatalog == StartEntry /\ StartApp

SaveAlbum ==
    /\ AtList
    /\ \/ \E a \in 1..Len(singer.albums) :
            handleSaveAlbum(singer.albums[a].id, TypedTitle, singer.albums[a].year, NULL, FreshSeed(1))
       \/ /\ Items < MaxCatalogItems
          /\ handleSaveAlbum(NULL, TypedTitle, YearOf(1), NULL, FreshSeed(1))

DeleteClick ==
    /\ AtList
    /\ activeSongId = NULL
    /\ \/ \E a \in 1..Len(singer.albums) : handleDeleteClick("album", singer.albums[a].id, NULL)
       \/ \E s \in ShownSongs :
            handleDeleteClick("song", singer.albums[s[1]].id, singer.albums[s[1]].songs[s[2]].id)

ClearScoresClick ==
    /\ AtList
    /\ activeSongId = NULL
    /\ \/ \E a \in 1..Len(singer.albums) : handleClearScoresClick("album", singer.albums[a].id, NULL)
       \/ \E s \in ShownSongs :
            handleClearScoresClick("song", singer.albums[s[1]].id, singer.albums[s[1]].songs[s[2]].id)

EditEntryScore ==
    /\ AtList
    /\ \E s \in ShownSongs :
         handleUpdateScore(singer.albums[s[1]].id, singer.albums[s[1]].songs[s[2]].id, "lyrics", TypedScore)

EditDashboardScore ==
    /\ AtList
    /\ \E s \in ShownSongs :
         dashboardUpdateScore(singer.albums[s[1]].id, singer.albums[s[1]].songs[s[2]].id, "lyrics", TypedScore)

ChangeTitle ==
    /\ AtList
    /\ \E s \in ShownSongs :
         onChangeTitle(singer.albums[s[1]].id, singer.albums[s[1]].songs[s[2]].id, TypedTitle)

AddSong ==
    /\ AtList
    /\ Items < MaxCatalogItems
    /\ \E a \in 1..Len(singer.albums) : onClickAddSong(singer.albums[a].id, FreshSeed(1))

OpenAI ==
    /\ AtList
    /\ Len(aiRequests) < MaxRequests
    /\ \E a \in 1..Len(singer.albums) : openAIModal(singer.albums[a].id)

AnswerAI ==
    \E r \in 1..Len(aiRequests) : \E tracks \in Tracklists(aiRequests[r]) : handleStartAIResumes(r, tracks)

CloseAI == showGenerationConfirm /\ onCloseAI

\* the confirm button is shown when the spinner is not, and is disabled for an empty list
ConfirmAI ==
    /\ showGenerationConfirm /\ ~isGenerating /\ generatedSongs # <<>>
    /\ Items + Len(generatedSongs) <= MaxCatalogItems
    /\ handleConfirmAI(FreshSeed(Len(generatedSongs)))

MouseDown == AtList /\ onMouseDown
MouseUp == Pressed /\ onMouseUp

DragStart ==
    /\ Pressed
    /\ \/ \E a \in 1..Len(singer.albums) : handleDragStart("album", a, 0)
       \/ \E s \in ShownSongs : handleDragStart("song", s[2], s[1])

DragOver ==
    /\ dragItem # JNull
    /\ \/ \E a \in 1..Len(singer.albums) : handleDragOver("album", a, 0)
       \/ \E s \in ShownSongs : handleDragOver("song", s[2], s[1])

DragEnd == dragItem # JNull /\ handleDragEnd

---------------------------------------------------------------------------
(* SpecCatalog: the catalog operations other than the reorder of songs, on
   the catalog of a singer just added; the AI dialog is opened before a score
   input is used, and again once its list was added *)

OpenAIOnce ==
    /\ AtList
    /\ activeSongId = NULL /\ aiTargetAlbumId = NULL /\ aiRequests = <<>>
    /\ \E a \in 1..Len(singer.albums) : openAIModal(singer.albums[a].id)

\* activeSongId is read by no handler: dialogs and drags are followed from
\* the states in which no song has been focused yet
PressHandle == activeSongId = NULL /\ MouseDown

DragAlbumStart == Pressed /\ \E a \in 1..Len(singer.albums) : handleDragStart("album", a, 0)

DragAlbumOver == dragItem # JNull /\ \E a \in 1..Len(singer.albums) : handleDragOver("album", a, 0)

NextCatalog ==
    \/ SaveAlbum \/ DeleteClick \/ confirmDelete \/ ClearScoresClick \/ confirmClearScores
    \/ EditEntryScore \/ EditDashboardScore \/ ChangeTitle \/ AddSong
    \/ OpenAIOnce \/ AnswerAI \/ ConfirmAI
    \/ PressHandle \/ MouseUp \/ DragAlbumStart \/ DragAlbumOver \/ DragEnd

SpecCatalog == InitCatalog /\ [][NextCatalog]_vars

---------------------------------------------------------------------------
(* SpecDrag: drag and drop on a stored catalog of up to MaxDragSongs songs *)

InitDrag ==
    /\ \E sizes \in Shapes(MaxDragSongs), dupId \in BOOLEAN : singer = StoredSinger(sizes, dupId)
    /\ StartViews

NextDrag == MouseDown \/ MouseUp \/ DragStart \/ DragOver \/ DragEnd

SpecDrag == InitDrag /\ [][NextDrag]_vars

---------------------------------------------------------------------------
(* SpecAI: the AI dialog, with up to MaxRequests calls of the service unresolved *)

InitAI ==
    /\ \E sizes \in Shapes(1) : singer = StoredSinger(sizes, FALSE)
    /\ StartViews

NextAI == OpenAI \/ AnswerAI \/ CloseAI \/ ConfirmAI

SpecAI == InitAI /\ [][NextAI]_vars


---------------------------------------------------------------------------
(* Properties of the data-entry view *)

IdsOf(album) == [k \in 1..Len(album.songs) |-> album.songs[k].id]

\* s is t with some of its entries left out
IsSubsequence(s, t) ==
    LET RECURSIVE Within(_, _)
        Within(i, j) == IF i > Len(s) THEN TRUE
                        ELSE IF j > Len(t) THEN FALSE
                        ELSE IF s[i] = t[j] THEN Within(i + 1, j + 1)
                        ELSE Within(i, j + 1)
    IN Within(1, 1)

\* t is s followed by further entries
IsPrefix(s, t) == Len(s) <= Len(t) /\ SubSeq(t, 1, Len(s)) = s

\* the step that ends the drag of a song
SongDrop == dragItem # JNull /\ dragItem.type = "song" /\ dragItem' = JNull

\* every album was there before, with songs left out or further songs after
\* the ones it had, or is new and has no songs
OrderKept ==
    \A b \in 1..Len(singer'.albums) :
      LET album == singer'.albums[b]
          before == {a \in 1..Len(singer.albums) : singer.albums[a].id = album.id}
      IN IF before = {} THEN album.songs = <<>>
         ELSE \E a \in before :
                \/ IsSubsequence(IdsOf(album), IdsOf(singer.albums[a]))
                \/ IsPrefix(IdsOf(singer.albums[a]), IdsOf(album))

\* C22: a catalog operation other than the reorder of songs (score edit,
\* clearing scores, song rename, album edit, album reorder, adding a song,
\* adding generated songs, deleting a song or an album) leaves the songs that
\* remain in each album in their order and puts a new song after the songs
\* its album had.
C22_OrderKept == [][SongDrop \/ OrderKept]_vars

\* the second of three songs was deleted and a song was added after the others
C22_Witness ==
    /\ Len(singer.albums) = 1
    /\ IdsOf(singer.albums[1]) = <<newId(2), newId(4), newId(3)>>
    /\ deleteTarget = JNull

\* the same entries, each as often
SamePermutation(s, t) ==
    /\ Len(s) = Len(t)
    /\ \A x \in Range(s) \cup Range(t) :
         Cardinality({k \in 1..Len(s) : s[k] = x}) = Cardinality({k \in 1..Len(t) : t[k] = x})

\* the drop of a song permutes the songs of the album dragged from only
DropInAlbum ==
    SongDrop =>
      /\ Len(singer'.albums) = Len(singer.albums)
      /\ dragItem.albumIndex \in 1..Len(singer.albums)
      /\ \A a \in 1..Len(singer.albums) :
           IF a = dragItem.albumIndex
           THEN /\ singer'.albums[a] = [singer.albums[a] EXCEPT !.songs = singer'.albums[a].songs]
                /\ SamePermutation(singer'.albums[a].songs, singer.albums[a].songs)
           ELSE singer'.albums[a] = singer.albums[a]
      /\ [singer' EXCEPT !.albums = singer.albums] = singer

\* a drop target is taken only from an item of the type dragged and, for a
\* song, of the album dragged from
TargetInAlbum ==
    dragOverItem' # JNull /\ dragOverItem' # dragOverItem =>
      /\ dragItem # JNull
      /\ dragOverItem'.type = dragItem.type
      /\ dragItem.type = "song" => dragOverItem'.albumIndex = dragItem.albumIndex

\* C23: the drag of a song changes only the song sequence of the album in
\* which it started: that album's songs are a permutation of what they were,
\* every other album is unchanged, no song moves to another album; a
\* drag-over on a song of another album or on an album is not taken as the
\* drop target.
C23_SongDrag == [][DropInAlbum /\ TargetInAlbum]_vars

\* in a catalog of two albums the second song of the first album was dropped
\* on the first
C23_Witness ==
    /\ dragItem = JNull
    /\ Len(singer.albums) = 2
    /\ Len(singer.albums[1].songs) = 2
    /\ singer.albums[1].songs[1].title = TitleOf(2)
    /\ singer.albums[1].songs[2].title = TitleOf(1)
    /\ singer.albums[2] \in {StoredAlbum(<<2, 1>>, 2, dupId) : dupId \in BOOLEAN}

\* C27: the track list the AI dialog offers for confirmation, which
\* confirming appends, was generated for the album that is the AI target.
C27_TracksForTarget ==
    showGenerationConfirm /\ ~isGenerating /\ generatedSongs # <<>> =>
      \E a \in 1..Len(singer.albums) :
        /\ singer.albums[a].id = aiTargetAlbumId
        /\ generatedSongs = TracksOf(singer.albums[a].title)


---------------------------------------------------------------------------
(* RankingPresentationView (src/views/RankingPresentationView.tsx)         *)
(*                                                                         *)
(* A handler is one step.  Its state updates and the effects React runs    *)
(* for them in the following render (the media effect on [currentSong],    *)
(* the fallback timer's effect on [isPlaying, currentSong, durationMs])    *)
(* belong to the step.  What runs later is kept as data: the callbacks     *)
(* handed to setTimeout (timeouts) and the calls of loadMedia that are     *)
(* suspended at an await (loads).  The url of a song's audio file is       *)
(* written as the song's id, the lyric file of a song is one cue line      *)
(* carrying the song's title.                                              *)

MaxShowSongs == 2

UPDATE_INTERVAL_MS == 100
TRANSITION_DURATION_MS == 600

\* the durationMs prop, and the limit both timers compute from it
DurationMs == 200
TimeLimit == IF DurationMs > 0 THEN DurationMs ELSE 15000

\* a stored singer with one album of n songs; with media, the first song
\* (the one the countdown closes with when the totals tie) has an audio file
\* and a lyric file
ShowSinger(n, media) ==
    LET s == StoredSinger(<<n>>, FALSE)
    IN [s EXCEPT !.albums =
          [a \in 1..Len(s.albums) |->
             [s.albums[a] EXCEPT !.songs =
                [k \in 1..Len(s.albums[a].songs) |->
                   [hasAudio |-> media /\ k = 1, hasLrc |-> media /\ k = 1]
                   @@ s.albums[a].songs[k]]]]]

ShowSingers == {ShowSinger(n, media) : n \in 0..MaxShowSongs, media \in BOOLEAN}

\* const currentSong = playlist[currentSongIndex], when there is one
HasSong(list, at) == at + 1 \in 1..Len(list)
CurrentSong(list, at) == list[at + 1]
NeedsTimer(list, at) == HasSong(list, at) /\ ~CurrentSong(list, at).hasAudio

\* the text of a song's lyric file
LrcFileOf(s) == <<91, 48, 48, 58, 48, 49, 46, 48, 48, 93>> \o s.title

\* the cleanup of the media effect: isMounted = false for the loads started
Unmounted(started) == {[l EXCEPT !.isMounted = FALSE] : l \in started}

\* the media effect run for a new currentSong: what it leaves in
\* lrcLines, elapsedTime, the audio element and the loads
MediaEffect(list, at) ==
    IF ~HasSong(list, at)
    THEN [lrcLines |-> lrcLines, elapsedTime |-> elapsedTime, audioSrc |-> audioSrc,
          loads |-> Unmounted(loads)]
    ELSE [lrcLines |-> <<>>, elapsedTime |-> 0, audioSrc |-> NULL,
          loads |-> Unmounted(loads) \cup
                    IF CurrentSong(list, at).hasAudio
                    THEN {[song |-> CurrentSong(list, at), isMounted |-> TRUE, stage |-> "audio"]}
                    ELSE {}]

\* the fallback timer's effect: whether it leaves an interval
TimerEffect(playing, list, at, switching) ==
    playing /\ NeedsTimer(list, at) /\ ~switching

nonShowVars == <<activeSongId, songSortConfig, importVars, scanVars, lrcVars, entryVars>>

\* the updates a transition applies after the fade-out
NextSong == [kind |-> "add", value |-> 1]
PrevSong == [kind |-> "add", value |-> -1]
FirstSong == [kind |-> "reset", value |-> 0]
JumpTo(index) == [kind |-> "jump", value |-> index]
Apply(nextAction, c) == IF nextAction.kind = "add" THEN c + nextAction.value ELSE nextAction.value

performTransition_NoLock(nextAction) ==
    /\ switchingRef' = TRUE
    /\ isPlaying' = FALSE
    /\ isTransitioning' = TRUE
    /\ timeouts' = Append(timeouts, [delay |-> TRANSITION_DURATION_MS, nextAction |-> nextAction])
    /\ intervalOn' = FALSE
    /\ UNCHANGED <<playlist, currentSongIndex, elapsedTime, mediaVars>>

performTransition(nextAction) ==
    IF switchingRef \/ isTransitioning
    THEN UNCHANGED showVars
    ELSE /\ switchingRef' = TRUE
         /\ isPlaying' = FALSE
         /\ isTransitioning' = TRUE
         /\ timeouts' = Append(timeouts, [delay |-> TRANSITION_DURATION_MS, nextAction |-> nextAction])
         /\ intervalOn' = FALSE
         /\ UNCHANGED <<playlist, currentSongIndex, elapsedTime, mediaVars>>

\* the callback of the first setTimeout of performTransition
timeoutFade ==
    /\ timeouts # <<>>
    /\ Head(timeouts).delay = TRANSITION_DURATION_MS
    /\ LET nextAction == Head(timeouts).nextAction
           index == Apply(nextAction, currentSongIndex)
           effect == MediaEffect(playlist, index)
       IN /\ currentSongIndex' = index
          /\ timeouts' = Append(Tail(timeouts), [delay |-> 50, nextAction |-> nextAction])
          /\ IF index # currentSongIndex
             THEN /\ lrcLines' = effect.lrcLines
                  /\ elapsedTime' = IF nextAction.kind = "reset" THEN 0 ELSE effect.elapsedTime
                  /\ audioSrc' = effect.audioSrc
                  /\ loads' = effect.loads
                  /\ intervalOn' = TimerEffect(isPlaying, playlist, index, switchingRef)
             ELSE /\ elapsedTime' = IF nextAction.kind = "reset" THEN 0 ELSE elapsedTime
                  /\ UNCHANGED <<lrcLines, audioSrc, loads, intervalOn>>
    /\ UNCHANGED <<singer, playlist, isPlaying, isTransitioning, switchingRef,
                   permissionNeeded, permissionHandle, nonShowVars>>

timeoutSettle_StaysPaused ==
    /\ timeouts # <<>>
    /\ Head(timeouts).delay = 50
    /\ timeouts' = Tail(timeouts)
    /\ isTransitioning' = FALSE
    /\ switchingRef' = FALSE
    /\ UNCHANGED <<singer, playlist, currentSongIndex, isPlaying, intervalOn, elapsedTime,
                   mediaVars, nonShowVars>>

\* the callback of the second setTimeout of performTransition
timeoutSettle ==
    /\ timeouts # <<>>
    /\ Head(timeouts).delay = 50
    /\ timeouts' = Tail(timeouts)
    /\ isTransitioning' = FALSE
    /\ isPlaying' = TRUE
    /\ switchingRef' = FALSE
    /\ intervalOn' = IF isPlaying THEN intervalOn
                     ELSE TimerEffect(TRUE, playlist, currentSongIndex, FALSE)
    /\ UNCHANGED <<singer, playlist, currentSongIndex, elapsedTime, mediaVars, nonShowVars>>

handleNext ==
    /\ IF currentSongIndex < Len(playlist) - 1
       THEN performTransition(NextSong)
       ELSE /\ isPlaying' = FALSE
            /\ intervalOn' = FALSE
            /\ UNCHANGED <<playlist, currentSongIndex, isTransitioning, switchingRef,
                           timeouts, elapsedTime, mediaVars>>
    /\ UNCHANGED <<singer, nonShowVars>>

handlePrev ==
    /\ IF currentSongIndex > 0
       THEN performTransition(PrevSong)
       ELSE UNCHANGED showVars
    /\ UNCHANGED <<singer, nonShowVars>>

handleReset ==
    /\ performTransition(FirstSong)
    /\ UNCHANGED <<singer, nonShowVars>>

\* playlist.findIndex(song => song.rank === rank)
FindIndexByRank(list, rank) ==
    IF \E k \in 1..Len(list) : list[k].rank = rank
    THEN (CHOOSE k \in 1..Len(list) :
             /\ list[k].rank = rank
             /\ \A j \in 1..(k - 1) : list[j].rank # rank) - 1
    ELSE -1

\* handleJumpToRank with targetRank the digits of rank
handleJumpToRank(rank) ==
    /\ LET index == FindIndexByRank(playlist, rank)
       IN IF index # -1 /\ index # currentSongIndex
          THEN performTransition(JumpTo(index))
          ELSE UNCHANGED showVars
    /\ UNCHANGED <<singer, nonShowVars>>

\* the play / pause button: setIsPlaying(!isPlaying)
onClickPlay ==
    /\ isPlaying' = ~isPlaying
    /\ intervalOn' = TimerEffect(~isPlaying, playlist, currentSongIndex, switchingRef)
    /\ UNCHANGED <<singer, playlist, currentSongIndex, isTransitioning, switchingRef,
                   timeouts, elapsedTime, mediaVars, nonShowVars>>

\* one tick of the fallback timer's interval
tick ==
    /\ intervalOn
    /\ IF elapsedTime + UPDATE_INTERVAL_MS >= TimeLimit
       THEN handleNext
       ELSE /\ elapsedTime' = elapsedTime + UPDATE_INTERVAL_MS
            /\ UNCHANGED <<singer, playlist, currentSongIndex, isPlaying, isTransitioning,
                           switchingRef, timeouts, intervalOn, mediaVars, nonShowVars>>

\* the audio element plays the file of the song: it ends, or onAudioTimeUpdate
\* finds the time limit reached
onEnded ==
    /\ audioSrc # NULL
    /\ isPlaying
    /\ handleNext

onAudioTimeUpdate ==
    /\ audioSrc # NULL
    /\ isPlaying
    /\ ~switchingRef
    /\ handleNext

handleRequestPermission ==
    /\ permissionHandle # NULL
    /\ permissionNeeded' = FALSE
    /\ permissionHandle' = NULL
    /\ isPlaying' = TRUE
    /\ intervalOn' = IF isPlaying THEN intervalOn
                     ELSE TimerEffect(TRUE, playlist, currentSongIndex, switchingRef)
    /\ UNCHANGED <<singer, playlist, currentSongIndex, isTransitioning, switchingRef,
                   timeouts, elapsedTime, audioSrc, lrcLines, loads, nonShowVars>>

\* loadMedia resumes after getFileHandle, verifyPermission and getFile of
\* the audio file: there is no handle, permission is denied, or there is a file
loadMediaAudio(l, outcome) ==
    /\ l \in loads
    /\ l.stage = "audio"
    /\ IF outcome = "denied" /\ l.isMounted
       THEN /\ permissionHandle' = l.song.id
            /\ permissionNeeded' = TRUE
            /\ isPlaying' = FALSE
            /\ intervalOn' = FALSE
       ELSE UNCHANGED <<permissionHandle, permissionNeeded, isPlaying, intervalOn>>
    /\ IF outcome = "file" /\ l.isMounted
       THEN /\ audioSrc' = l.song.id
            /\ loads' = (loads \ {l}) \cup
                        IF l.song.hasLrc THEN {[l EXCEPT !.stage = "lrc"]} ELSE {}
       ELSE /\ loads' = loads \ {l}
            /\ UNCHANGED audioSrc
    /\ UNCHANGED <<singer, playlist, currentSongIndex, isTransitioning, switchingRef,
                   timeouts, elapsedTime, lrcLines, nonShowVars>>

\* loadMedia resumes after the lyric file was read, or was not there
loadMediaLrc(l, outcome) ==
    /\ l \in loads
    /\ l.stage = "lrc"
    /\ loads' = loads \ {l}
    /\ lrcLines' = IF outcome = "text" /\ l.isMounted
                   THEN parseLrc(LrcFileOf(l.song))
                   ELSE lrcLines
    /\ UNCHANGED <<singer, playlist, currentSongIndex, playVars, audioSrc,
                   permissionNeeded, permissionHandle, nonShowVars>>

\* the view is given another singer: the playlist effect, and the effects
\* on the new currentSong
singerChanges(newSinger) ==
    /\ newSinger # singer
    /\ singer' = newSinger
    /\ \E songs \in {getPresentationSongs(newSinger)} :
       LET effect == MediaEffect(songs, currentSongIndex)
       IN /\ playlist' = songs
          /\ lrcLines' = effect.lrcLines
          /\ elapsedTime' = effect.elapsedTime
          /\ audioSrc' = effect.audioSrc
          /\ loads' = effect.loads
          /\ intervalOn' = TimerEffect(isPlaying, songs, currentSongIndex, switchingRef)
    /\ UNCHANGED <<currentSongIndex, isPlaying, isTransitioning, switchingRef, timeouts,
                   permissionNeeded, permissionHandle, nonShowVars>>

\* the view as mounted for a singer, with the initial value of isPlaying
Mounted(playing) ==
    /\ singer \in ShowSingers
    /\ playlist = getPresentationSongs(singer)
    /\ currentSongIndex = 0
    /\ isPlaying = playing
    /\ isTransitioning = FALSE
    /\ switchingRef = FALSE
    /\ timeouts = <<>>
    /\ elapsedTime = 0
    /\ intervalOn = TimerEffect(playing, playlist, 0, FALSE)
    /\ audioSrc = NULL
    /\ lrcLines = <<>>
    /\ permissionNeeded = FALSE
    /\ permissionHandle = NULL
    /\ loads = IF HasSong(playlist, 0) /\ playlist[1].hasAudio
               THEN {[song |-> playlist[1], isMounted |-> TRUE, stage |-> "audio"]}
               ELSE {}
    /\ activeSongId = NULL
    /\ songSortConfig = [key |-> "total", direction |-> "desc"]
    /\ imported = UNDEFINED
    /\ sanitized = UNDEFINED
    /\ singers = JArr(<<>>)
    /\ mounted = TRUE
    /\ ScanIdle
    /\ LrcIdle
    /\ EntryIdle

InitShow == Mounted(TRUE)

JumpToRank == \E rank \in 1..(MaxShowSongs + 1) : handleJumpToRank(rank)
LoadMediaAudio == \E l \in loads : \E outcome \in {"none", "denied", "file"} : loadMediaAudio(l, outcome)
LoadMediaLrc == \E l \in loads : \E outcome \in {"none", "text"} : loadMediaLrc(l, outcome)
SingerChanges == \E newSinger \in ShowSingers : singerChanges(newSinger)

NextShow ==
    \/ handleNext
    \/ handlePrev
    \/ handleReset
    \/ JumpToRank
    \/ onClickPlay
    \/ tick
    \/ onEnded
    \/ onAudioTimeUpdate
    \/ handleRequestPermission
    \/ timeoutFade
    \/ timeoutSettle
    \/ LoadMediaAudio
    \/ LoadMediaLrc
    \/ SingerChanges

SpecShow == InitShow /\ [][NextShow]_vars


---------------------------------------------------------------------------
(* Properties of the transitions of the presentation view *)

InTransition == switchingRef \/ isTransitioning

\* the step is the fade-out callback of the one pending transition
FadeStep ==
    /\ Len(timeouts) = 1
    /\ timeouts[1].delay = TRANSITION_DURATION_MS
    /\ timeouts' = <<[delay |-> 50, nextAction |-> timeouts[1].nextAction]>>
    /\ currentSongIndex' = Apply(timeouts[1].nextAction, currentSongIndex)

\* the step is the follow-up callback of the one pending transition
SettleStep ==
    /\ Len(timeouts) = 1
    /\ timeouts[1].delay = 50
    /\ timeouts' = <<>>
    /\ currentSongIndex' = currentSongIndex

\* C24: at most one transition is in flight; while one is in flight a step
\* either is one of its two callbacks or leaves the pending callbacks and
\* currentSongIndex alone (a next, previous, reset, jump, timer-limit or
\* audio-end request is dropped, not queued); currentSongIndex changes only
\* in the fade-out callback, to what the transition's own update gives for
\* the index of that moment; a step outside a transition starts at most one.
C24_OneTransition ==
    [][/\ Len(timeouts') <= 1
       /\ InTransition <=> timeouts # <<>>
       /\ InTransition =>
            \/ timeouts' = timeouts /\ currentSongIndex' = currentSongIndex
            \/ FadeStep
            \/ SettleStep
       /\ ~InTransition => currentSongIndex' = currentSongIndex]_vars

\* C24 witness: the fallback timer stands one tick before the limit and a
\* transition to the next song, not yet applied, is the only one pending
C24_Witness ==
    /\ timeouts = <<[delay |-> TRANSITION_DURATION_MS, nextAction |-> NextSong]>>
    /\ elapsedTime + UPDATE_INTERVAL_MS >= TimeLimit
    /\ currentSongIndex = 0
    /\ switchingRef
    /\ ~isPlaying

\* C25: whenever the playlist is not empty, currentSongIndex is one of its
\* indices
C25_IndexValid ==
    playlist # <<>> => currentSongIndex \in 0..(Len(playlist) - 1)

\* the timers of the browser run their callbacks
SpecShowFair == SpecShow /\ WF_vars(timeoutFade) /\ WF_vars(timeoutSettle)

Completed == timeouts = <<>> /\ ~isTransitioning /\ ~switchingRef /\ isPlaying

NextActions == {NextSong, PrevSong, FirstSong} \cup {JumpTo(index) : index \in 0..(MaxShowSongs - 1)}

\* C28: a transition that has started, with its update pending at some
\* index, leads to a state where no callback is pending, isTransitioning is
\* false, the lock is released, isPlaying is true and currentSongIndex is
\* what the update gives for that index.
C28_TransitionCompletes ==
    \A nextAction \in NextActions : \A c \in 0..(MaxShowSongs - 1) :
        (/\ timeouts = <<[delay |-> TRANSITION_DURATION_MS, nextAction |-> nextAction]>>
         /\ currentSongIndex = c)
        ~> (Completed /\ currentSongIndex = Apply(nextAction, c))

\* C28 witness: a transition to the next song has completed
C28_Witness ==
    /\ Completed
    /\ currentSongIndex = 1
    /\ Len(playlist) = 2


---------------------------------------------------------------------------
(* RankingPresentationView as src/unnamed/part_005 has it: songs follow    *)
(* each other without a fade, playback starts paused, and the media effect *)
(* depends on [currentSong?.id, currentSong?.hasAudio, currentSong?.hasLrc] *)

\* the media effect run for a new currentSong: the audio element is
\* emptied by loadMedia only when the song has no audio file
MediaEffect_part005(list, at) ==
    IF ~HasSong(list, at)
    THEN [lrcLines |-> lrcLines, elapsedTime |-> elapsedTime, audioSrc |-> audioSrc,
          loads |-> Unmounted(loads)]
    ELSE [lrcLines |-> <<>>, elapsedTime |-> 0,
          audioSrc |-> IF CurrentSong(list, at).hasAudio THEN audioSrc ELSE NULL,
          loads |-> Unmounted(loads) \cup
                    IF CurrentSong(list, at).hasAudio
                    THEN {[song |-> CurrentSong(list, at), isMounted |-> TRUE, stage |-> "audio"]}
                    ELSE {}]

handleNext_part005 ==
    /\ IF currentSongIndex < Len(playlist) - 1
       THEN LET effect == MediaEffect_part005(playlist, currentSongIndex + 1)
            IN /\ currentSongIndex' = currentSongIndex + 1
               /\ elapsedTime' = 0
               /\ lrcLines' = effect.lrcLines
               /\ audioSrc' = effect.audioSrc
               /\ loads' = effect.loads
               /\ intervalOn' = TimerEffect(isPlaying, playlist, currentSongIndex + 1, FALSE)
               /\ UNCHANGED isPlaying
       ELSE /\ isPlaying' = FALSE
            /\ intervalOn' = FALSE
            /\ UNCHANGED <<currentSongIndex, elapsedTime, lrcLines, audioSrc, loads>>
    /\ UNCHANGED <<singer, playlist, isTransitioning, switchingRef, timeouts,
                   permissionNeeded, permissionHandle, nonShowVars>>

\* one tick of the fallback timer's interval
tick_part005 ==
    /\ intervalOn
    /\ IF elapsedTime + UPDATE_INTERVAL_MS >= TimeLimit
       THEN handleNext_part005
       ELSE /\ elapsedTime' = elapsedTime + UPDATE_INTERVAL_MS
            /\ UNCHANGED <<singer, playlist, currentSongIndex, isPlaying, isTransitioning,
                           switchingRef, timeouts, intervalOn, mediaVars, nonShowVars>>

\* loadMedia resumes after getFileHandle, verifyPermission and the read of
\* the audio file
loadMediaAudio_part005(l, outcome) ==
    /\ l \in loads
    /\ l.stage = "audio"
    /\ IF outcome = "denied" /\ l.isMounted
       THEN /\ permissionHandle' = l.song.id
            /\ permissionNeeded' = TRUE
            /\ isPlaying' = FALSE
            /\ intervalOn' = FALSE
       ELSE UNCHANGED <<permissionHandle, permissionNeeded, isPlaying, intervalOn>>
    /\ IF outcome = "file"
       THEN /\ audioSrc' = l.song.id
            /\ loads' = (loads \ {l}) \cup
                        IF l.song.hasLrc THEN {[l EXCEPT !.stage = "lrc"]} ELSE {}
       ELSE /\ loads' = loads \ {l}
            /\ UNCHANGED audioSrc
    /\ UNCHANGED <<singer, playlist, currentSongIndex, isTransitioning, switchingRef,
                   timeouts, elapsedTime, lrcLines, nonShowVars>>

handleReset_part005 ==
    /\ isPlaying' = FALSE
    /\ currentSongIndex' = 0
    /\ elapsedTime' = 0
    /\ intervalOn' = FALSE
    /\ IF currentSongIndex # 0
       THEN LET effect == MediaEffect_part005(playlist, 0)
            IN /\ lrcLines' = effect.lrcLines
               /\ audioSrc' = effect.audioSrc
               /\ loads' = effect.loads
       ELSE UNCHANGED <<lrcLines, audioSrc, loads>>
    /\ UNCHANGED <<singer, playlist, isTransitioning, switchingRef, timeouts,
                   permissionNeeded, permissionHandle, nonShowVars>>

\* what the media effect depends on
MediaDeps(list, at) ==
    IF HasSong(list, at)
    THEN <<CurrentSong(list, at).id, CurrentSong(list, at).hasAudio, CurrentSong(list, at).hasLrc>>
    ELSE <<>>

\* the view is given another singer
singerChanges_part005(newSinger) ==
    /\ newSinger # singer
    /\ singer' = newSinger
    /\ \E songs \in {getPresentationSongs(newSinger)} :
       LET effect == MediaEffect_part005(songs, currentSongIndex)
       IN /\ playlist' = songs
          /\ intervalOn' = TimerEffect(isPlaying, songs, currentSongIndex, FALSE)
          /\ IF MediaDeps(songs, currentSongIndex) # MediaDeps(playlist, currentSongIndex)
             THEN /\ lrcLines' = effect.lrcLines
                  /\ elapsedTime' = effect.elapsedTime
                  /\ audioSrc' = effect.audioSrc
                  /\ loads' = effect.loads
             ELSE UNCHANGED <<lrcLines, elapsedTime, audioSrc, loads>>
    /\ UNCHANGED <<currentSongIndex, isPlaying, isTransitioning, switchingRef, timeouts,
                   permissionNeeded, permissionHandle, nonShowVars>>

InitShow005 == Mounted(FALSE)

SingerChanges005 == \E newSinger \in ShowSingers : singerChanges_part005(newSinger)

LoadMediaAudio005 ==
    \E l \in loads : \E outcome \in {"none", "denied", "file"} : loadMediaAudio_part005(l, outcome)

NextShow005 ==
    \/ handleNext_part005
    \/ handleReset_part005
    \/ tick_part005
    \/ SingerChanges005
    \/ onClickPlay
    \/ LoadMediaAudio005
    \/ LoadMediaLrc

SpecShow005 == InitShow005 /\ [][NextShow005]_vars

\* a load that was started for an earlier current song resumes in this step
StaleResumes == \E l \in loads : ~l.isMounted /\ l \notin loads'

\* what the view shows belongs to the current song
MediaOfCurrentSong ==
    HasSong(playlist, currentSongIndex) =>
        /\ audioSrc \in {NULL, CurrentSong(playlist, currentSongIndex).id}
        /\ \A k \in 1..Len(lrcLines) :
             lrcLines[k].text = CurrentSong(playlist, currentSongIndex).title

\* C26: a step in which a load started for a previous current song resumes
\* leaves the audio element's source, the lyric cues and the permission
\* prompt as they are, and in every state the audio source and the cues are
\* empty or those of the current song.
C26_StaleLoadIgnored ==
    [][/\ StaleResumes => UNCHANGED <<audioSrc, lrcLines, permissionNeeded, permissionHandle>>
       /\ MediaOfCurrentSong
       /\ MediaOfCurrentSong']_vars


---------------------------------------------------------------------------
(* fileMatcher: several files for one song, and files named after a title *)

FlaggedSongs(flag) == {s \in 1..Len(scanSongs) : Flagged(scanSongs[s].id, flag)}

\* two of these files were matched to the same song
SameSongTwice(files) == \E i, j \in files : i # j /\ log[i].song = log[j].song

\* the last of these files, in the order examined, matched to the song of file k
LastFor(files, k) ==
    CHOOSE j \in files :
        /\ log[j].song = log[k].song
        /\ \A i \in files : log[i].song = log[k].song => i <= j

CountsAndStore(files, count, flag, type) ==
    /\ count = Cardinality(files)
    /\ count >= Cardinality(FlaggedSongs(flag))
    /\ count = Cardinality(FlaggedSongs(flag)) <=> ~SameSongTwice(files)
    /\ \A k \in files :
         /\ <<scanSongs[log[k].song].id, type>> \in DOMAIN store
         /\ store[<<scanSongs[log[k].song].id, type>>] = log[LastFor(files, k)].file

CountsAndStoreBoth ==
    /\ CountsAndStore(PersistedAudio, counters.audio, "hasAudio", "audio")
    /\ CountsAndStore(PersistedLrc, counters.lrc, "hasLrc", "lrc")
    /\ result # UNDEFINED =>
         /\ result.matchedAudioCount = Cardinality(PersistedAudio)
         /\ result.matchedLrcCount = Cardinality(PersistedLrc)

\* C29 as stated, for any song list: each counter is the number of files of
\* its type that were persisted, it is at least the number of songs flagged
\* for that type, with equality exactly when no two persisted files of the
\* type matched the same song, and the handle stored for a song and type is
\* the last persisted file of that type matched to the song.
C29_CountsAnyList == CountsAndStoreBoth

\* C29: the same for song lists whose ids are pairwise distinct
C29_Counts == DistinctIds(scanSongs) => CountsAndStoreBoth

\* C29 witness: a result for which two audio files were persisted for one
\* song: the count is 2, one song is flagged, the second file is stored
C29_Witness ==
    /\ result # UNDEFINED
    /\ DistinctIds(scanSongs)
    /\ result.matchedAudioCount = 2
    /\ Cardinality(FlaggedSongs("hasAudio")) = 1
    /\ SameSongTwice(PersistedAudio)
    /\ \E k \in PersistedAudio : store[<<scanSongs[log[k].song].id, "audio">>] # log[k].file

\* "1999", "7 Day", "-", " Day"
Title1999 == <<49, 57, 57, 57>>
Title7Day == <<55, 32>> \o Day
TitleDash == <<45>>
TitleSpaceDay == <<32>> \o Day

NamedTitles == {Day, Title1999, Title7Day, TitleDash, TitleSpaceDay, Blank}

\* the title followed by "." and an extension
NamedAfter(title, ext) == title \o <<46>> \o ext

\* the file names made of the title of a song of the list, when it is not
\* blank, and of an audio or the lyric extension
NamesFor(songs) ==
    {NamedAfter(songs[s].title, ext) :
        s \in {k \in 1..Len(songs) : normalizeTitle(songs[k].title) # <<>>},
        ext \in {<<109, 112, 51>>, LrcExtension}}

\* SpecNamed: scans of one file named after a song of the list
InitNamed ==
    /\ scanSongs \in SongLists(NamedTitles, MaxMatchSongs)
    /\ dirHandle \in EntriesWith(NamesFor(scanSongs), 1, 1)
    /\ ScanStarted

SpecNamed == InitNamed /\ [][NextScan]_vars

\* C30: a file named after the non-blank title of a song, with an audio or
\* the lyric extension, is matched to a song: to that song, or to an earlier
\* one whose normalized title is contained in the normalized file name.
C30_NamedAfterTitle ==
    \A k \in 1..Len(log) : \A s \in 1..Len(scanSongs) :
        (/\ normalizeTitle(scanSongs[s].title) # <<>>
         /\ \E ext \in AudioExtensions \cup {LrcExtension} :
              log[k].name = NamedAfter(scanSongs[s].title, ext))
        => /\ log[k].song # 0
           /\ log[k].song <= s
           /\ log[k].song < s =>
                includes(normalize(log[k].name), normalizeTitle(scanSongs[log[k].song].title))

=============================================================================
